---- MODULE Spec2Model ----
(***************************************************************************)
(* A model of the sqlfluff parser core: the ParseContext's scoped          *)
(* terminator/name stack (core/parser/context.py) and the Sequence and     *)
(* Bracketed grammars (core/parser/grammar/sequence.py).                   *)
(*                                                                         *)
(* Indices are the 0-based indices of the Python code; a Python slice      *)
(* slice(a, b) is the pair of fields start |-> a, stop |-> b.  The token   *)
(* at Python index i of a sequence s is s[i + 1].                          *)
(***************************************************************************)
EXTENDS Integers, Sequences, FiniteSets, TLC

VARIABLES
    terminators,     \* ParseContext.terminators: a tuple of matchers
    match_segment,   \* ParseContext.match_segment
    match_stack,     \* ParseContext._match_stack
    match_depth,     \* ParseContext.match_depth
    track_progress,  \* ParseContext.track_progress
    frames,          \* the deeper_match scopes that are open, innermost last
    raising,         \* the exception that is propagating, "" when none is
    last,            \* history: the latest scope entry or exit
    pc,              \* the position of the grammar match that is running
    inp,             \* the arguments and configuration of that match
    res              \* what that match returned or raised

vars == <<terminators, match_segment, match_stack, match_depth, track_progress,
          frames, raising, last, pc, inp, res>>

ctxvars == <<terminators, match_segment, match_stack, match_depth, track_progress>>

(***************************************************************************)
(* Bounds of the model.                                                    *)
(***************************************************************************)
MaxDepth == 2

(***************************************************************************)
(* Sequence helpers.                                                       *)
(***************************************************************************)
Last(s) == s[Len(s)]

Front(s) == SubSeq(s, 1, Len(s) - 1)

InSeq(x, s) == \E i \in 1..Len(s) : s[i] = x

(***************************************************************************)
(* ParseContext (context.py).                                              *)
(***************************************************************************)

\* The context's stack-scoped fields as one value.
Ctx ==
    [terminators |-> terminators, match_segment |-> match_segment,
     match_stack |-> match_stack, match_depth |-> match_depth,
     track_progress |-> track_progress]

\* ParseContext.__init__: the fields of a new context.
InitCtx ==
    [terminators |-> <<"dummy">>, match_segment |-> "RootFile",
     match_stack |-> <<"initial">>, match_depth |-> 1,
     track_progress |-> FALSE]

\* The loop of _set_terminators: each pushed terminator that is not yet among
\* the terminators is appended, in order.
RECURSIVE AppendNew(_, _)
AppendNew(terms, push) ==
    IF push = <<>> THEN terms
    ELSE AppendNew(IF InSeq(push[1], terms) THEN terms ELSE Append(terms, push[1]),
                   Tail(push))

\* A variant of _set_terminators that never clears: the pushed terminators are
\* always appended to the ones inherited.
SetTerminatorsAppendOnly(terms, clear_terminators, push_terminators) ==
    LET new == AppendNew(terms, push_terminators)
    IN  [terminators |-> new, appended |-> Len(new) - Len(terms),
         saved |-> terms]

\* ParseContext._set_terminators: the new terminators, the number appended and
\* the terminators as they were.  A push of None and an empty push are both
\* falsy and are both the empty sequence here.
SetTerminators(terms, clear_terminators, push_terminators) ==
    IF clear_terminators /\ terms # <<>>
    THEN [terminators |-> push_terminators, appended |-> 0, saved |-> terms]
    ELSE LET new == AppendNew(terms, push_terminators)
         IN  [terminators |-> new, appended |-> Len(new) - Len(terms),
              saved |-> terms]

\* A variant of _reset_terminators that trims without looking at the count:
\* terminators[:-0] is the empty tuple.
ResetTerminatorsAlwaysTrim(terms, appended, saved, clear_terminators) ==
    IF clear_terminators THEN saved
    ELSE IF appended = 0 THEN <<>>
    ELSE SubSeq(terms, 1, Len(terms) - appended)

\* ParseContext._reset_terminators.
ResetTerminators(terms, appended, saved, clear_terminators) ==
    IF clear_terminators THEN saved
    ELSE IF appended # 0 THEN SubSeq(terms, 1, Len(terms) - appended)
    ELSE terms

\* deeper_match up to its yield: the context inside the scope and the locals
\* the generator keeps (_append, _terms, _track_progress and the argument
\* clear_terminators).  tp is the argument track_progress: "None", "True" or
\* "False".
DeeperEnter(c, name, clear_terminators, push_terminators, tp) ==
    LET st == SetTerminators(c.terminators, ~clear_terminators, push_terminators)
    IN  [ctx |-> [terminators |-> st.terminators,
                  match_segment |-> name,
                  match_stack |-> Append(c.match_stack, c.match_segment),
                  match_depth |-> c.match_depth + 2,
                  track_progress |-> IF tp = "True" THEN TRUE ELSE c.track_progress],
         loc |-> [append |-> st.appended, terms |-> st.saved,
                  track |-> ~c.track_progress,
                  clear_terminators |-> clear_terminators]]

\* The finally block of deeper_match, run with the generator's locals.
DeeperExit(c, loc) ==
    [terminators |-> ResetTerminators(c.terminators, loc.append, loc.terms,
                                      ~loc.clear_terminators),
     match_segment |-> Last(c.match_stack),
     match_stack |-> Front(c.match_stack),
     match_depth |-> c.match_depth - 2,
     track_progress |-> ~loc.track]

\* The assertion of deeper_match on its track_progress argument: tracking
\* cannot be switched off by a call.  It is the call's precondition.
TrackingAllowed(c, tp) == tp = "False" => ~c.track_progress

CtxIs(c) ==
    /\ terminators = c.terminators
    /\ match_segment = c.match_segment
    /\ match_stack = c.match_stack
    /\ match_depth = c.match_depth
    /\ track_progress = c.track_progress

SetCtx(c) ==
    /\ terminators' = c.terminators
    /\ match_segment' = c.match_segment
    /\ match_stack' = c.match_stack
    /\ match_depth' = c.match_depth
    /\ track_progress' = c.track_progress

(***************************************************************************)
(* The context used on its own: scopes are entered, left and unwound by    *)
(* an exception in any order the with statement allows.                    *)
(***************************************************************************)
ScopeNames == {"Sequence-@0", "Bracketed"}

\* push_terminators arguments: none, one terminator, two, and one twice.
Pushes == {<<>>, <<"t1">>, <<"t1", "t2">>, <<"t2", "t2">>}

TrackArgs == {"None", "True", "False"}

NoEvent == [ev |-> "none"]

InitCtxOnly ==
    /\ CtxIs(InitCtx)
    /\ frames = <<>>
    /\ raising = ""
    /\ last = NoEvent
    /\ pc = "ctx"
    /\ inp = <<>>
    /\ res = <<>>

\* with parse_context.deeper_match(name, clear_terminators, push_terminators,
\* track_progress): the code before the yield.
Enter(name, clear_terminators, push_terminators, tp) ==
    /\ raising = ""
    /\ Len(frames) < MaxDepth
    /\ TrackingAllowed(Ctx, tp)
    /\ LET e == DeeperEnter(Ctx, name, clear_terminators, push_terminators, tp)
       IN  /\ SetCtx(e.ctx)
           /\ frames' = Append(frames,
                  [loc |-> e.loc, name |-> name, push |-> push_terminators,
                   tp |-> tp, before |-> Ctx])
           /\ last' = [ev |-> "enter"]
    /\ UNCHANGED <<raising, pc, inp, res>>

\* The innermost scope is left, by the end of its body or by the exception
\* that is propagating: the finally block runs.
Exit ==
    /\ frames # <<>>
    /\ LET f == Last(frames)
       IN  /\ SetCtx(DeeperExit(Ctx, f.loc))
           /\ last' = [ev |-> "exit", by_exception |-> raising # "",
                       depth |-> Len(frames), before |-> f.before,
                       inside |-> Ctx, clear_terminators |-> f.loc.clear_terminators,
                       push |-> f.push]
    /\ frames' = Front(frames)
    /\ UNCHANGED <<raising, pc, inp, res>>

\* The body of the innermost scope raises.
Raise ==
    /\ frames # <<>>
    /\ raising = ""
    /\ raising' = "SQLParseError"
    /\ UNCHANGED <<ctxvars, frames, last, pc, inp, res>>

\* The exception has left every scope and reaches the caller of the parser.
Caught ==
    /\ frames = <<>>
    /\ raising # ""
    /\ raising' = ""
    /\ UNCHANGED <<ctxvars, frames, last, pc, inp, res>>

NextCtx ==
    \/ \E name \in ScopeNames, clear_terminators \in BOOLEAN,
          push_terminators \in Pushes, tp \in TrackArgs :
           Enter(name, clear_terminators, push_terminators, tp)
    \/ Exit
    \/ Raise
    \/ Caught

SpecCtx == InitCtxOnly /\ [][NextCtx]_vars

(***************************************************************************)
(* Tokens, match results and the shared match algorithms.                  *)
(*                                                                         *)
(* A token is its raw text.  "ws" is whitespace; "{%", "%}" and "{{" are    *)
(* template placeholders of block type block_start, block_end and          *)
(* templated; none of these is code.                                       *)
(***************************************************************************)
NonCode == {"ws", "{%", "%}", "{{"}

IsCode(tok) == tok \notin NonCode

IsPlaceholder(tok) == tok \in {"{%", "%}", "{{"}

BlockType(tok) ==
    IF tok = "{%" THEN "block_start"
    ELSE IF tok = "%}" THEN "block_end"
    ELSE "templated"

\* segments[i] is evaluated without an IndexError.
IndexOk(segments, i) == -Len(segments) <= i /\ i < Len(segments)

\* A MatchResult: matched_slice is slice(start, stop), cls the matched_class
\* ("" for none), expected the message of segment_kwargs, ins the
\* insert_segments as <<index, indent_val>> pairs, kids the child_matches.
MR(start, stop, cls, expected, ins, kids) ==
    [start |-> start, stop |-> stop, cls |-> cls, expected |-> expected,
     ins |-> ins, kids |-> kids]

\* MatchResult.empty_at.
EmptyAt(i) == MR(i, i, "", "", <<>>, <<>>)

\* The truth value of a MatchResult.
Truthy(m) == m.stop > m.start \/ m.ins # <<>> \/ m.kids # <<>>

\* MatchResult.wrap: a failed match is passed through; a match with a class
\* becomes the only child of the wrapper.
Wrap(m, cls, expected) ==
    IF ~Truthy(m) THEN m
    ELSE MR(m.start, m.stop, cls, expected, m.ins,
            IF m.cls # "" THEN <<m>> ELSE m.kids)

\* skip_start_index_forward_to_code: the index of the first code token in
\* [start_idx, max_idx), max_idx when there is none.
RECURSIVE SkipForward(_, _, _)
SkipForward(segments, start_idx, max_idx) ==
    IF start_idx >= max_idx THEN max_idx
    ELSE IF IsCode(segments[start_idx + 1]) THEN start_idx
    ELSE SkipForward(segments, start_idx + 1, max_idx)

\* skip_stop_index_backward_to_code: the index just after the last code token
\* in [min_idx, stop_idx), min_idx when there is none.
RECURSIVE SkipBackward(_, _, _)
SkipBackward(segments, stop_idx, min_idx) ==
    IF stop_idx <= min_idx THEN min_idx
    ELSE IF IsCode(segments[stop_idx]) THEN stop_idx
    ELSE SkipBackward(segments, stop_idx - 1, min_idx)

\* A terminator is the raw text it matches; it matches at i when the token
\* there has that text.  The "dummy" terminator of a new context is the text
\* of no token.
TermMatchesAt(segments, i, terms) ==
    /\ i < Len(segments)
    /\ InSeq(segments[i + 1], terms)

\* trim_to_terminator: the first index at or after idx where one of the
\* terminators matches, the end of the input when none does.
RECURSIVE TrimToTerminator(_, _, _)
TrimToTerminator(segments, idx, terms) ==
    IF idx >= Len(segments) THEN Len(segments)
    ELSE IF TermMatchesAt(segments, idx, terms) THEN idx
    ELSE TrimToTerminator(segments, idx + 1, terms)

(***************************************************************************)
(* Sequence (grammar/sequence.py).                                         *)
(*                                                                         *)
(* An element is a token parser [kind "leaf"], an Indent or Dedent         *)
(* [kind "meta"], a Conditional [kind "cond"] or a nested Sequence         *)
(* [kind "seq"].  What a match gives is a record: raised names the          *)
(* exception that left it ("" when it returned), m is the MatchResult      *)
(* returned, ctx the context afterwards, and gh the history of the call.   *)
(***************************************************************************)
\* The value None where a context is expected.
NoneCtx == [none |-> TRUE]

IsNone(c) == "none" \in DOMAIN c

Returned(m, c, gh) == [raised |-> "", m |-> m, ctx |-> c, gh |-> gh]

Raised(err, c, gh) == [raised |-> err, m |-> EmptyAt(-1), ctx |-> c, gh |-> gh]

\* The match of a token parser: one token with the parser's text.
LeafMatch(elem, segments, idx) ==
    IF idx < Len(segments) /\ segments[idx + 1] = elem.raw
    THEN MR(idx, idx + 1, "keyword", "", <<>>, <<>>)
    ELSE EmptyAt(idx)

\* _flush_metas: the index at which the buffered metas are inserted.
RECURSIVE LastPlaceholderFrom(_, _, _)
LastPlaceholderFrom(segments, i, pre_nc_idx) ==
    IF i <= pre_nc_idx THEN pre_nc_idx
    ELSE IF IsPlaceholder(segments[i])
         THEN (IF BlockType(segments[i]) = "block_end" THEN i ELSE pre_nc_idx)
         ELSE LastPlaceholderFrom(segments, i - 1, pre_nc_idx)

RECURSIVE FirstPlaceholderFrom(_, _, _)
FirstPlaceholderFrom(segments, i, post_nc_idx) ==
    IF i >= post_nc_idx THEN post_nc_idx
    ELSE IF IsPlaceholder(segments[i + 1])
         THEN (IF BlockType(segments[i + 1]) = "block_start" THEN i ELSE post_nc_idx)
         ELSE FirstPlaceholderFrom(segments, i + 1, post_nc_idx)

MetaIdx(pre_nc_idx, post_nc_idx, meta_buffer, segments) ==
    IF \A k \in 1..Len(meta_buffer) : meta_buffer[k] >= 0
    THEN LastPlaceholderFrom(segments, post_nc_idx, pre_nc_idx)
    ELSE FirstPlaceholderFrom(segments, pre_nc_idx, post_nc_idx)

\* tuple((i, meta) for meta in meta_buffer)
MetasAt(i, meta_buffer) == [k \in 1..Len(meta_buffer) |-> <<i, meta_buffer[k]>>]

FlushMetas(pre_nc_idx, post_nc_idx, meta_buffer, segments) ==
    MetasAt(MetaIdx(pre_nc_idx, post_nc_idx, meta_buffer, segments), meta_buffer)

\* The history of a call of Sequence.match: the branch it returned from, the
\* terminator boundary when it returned, the number of elements that matched
\* and the stop of the last of them (the start index when none did), the
\* position in the grammar of the non-optional element that did not match (0
\* when every element matched or was skipped), for every element handed to
\* its matcher, the index it was tried at and the length of the input it saw,
\* for every element that matched, the stop of the element matched before it,
\* the start and stop of its own match and the metas buffered before it, and
\* the metas still buffered when the call returned.
History(path, st, failed) ==
    [path |-> path, max_idx |-> st.max_idx, nmatched |-> st.nmatched,
     last_stop |-> st.last_stop, failed |-> failed, attempts |-> st.attempts,
     flushes |-> st.flushes, meta_buffer |-> st.meta_buffer]

\* An element has no token left to match: the sequence fails outright.
NothingLeftFails(mode, matched_idx, start_idx) ==
    mode = "STRICT" \/ matched_idx = start_idx

\* A variant that gives partial credit in STRICT mode once an element matched.
ElementFailsOutrightLenient(mode, matched_idx, start_idx) ==
    matched_idx = start_idx

\* An element did not match: the sequence fails outright.
ElementFailsOutright(mode, matched_idx, start_idx) ==
    \/ mode = "STRICT"
    \/ (mode = "GREEDY_ONCE_STARTED" /\ matched_idx = start_idx)

\* The state of the loop of Sequence.match before its first element.
LoopStart(segments, idx, max_idx) ==
    [matched_idx |-> idx, max_idx |-> max_idx, ins |-> <<>>, kids |-> <<>>,
     first_match |-> TRUE, meta_buffer |-> <<>>, attempts |-> <<>>,
     nmatched |-> 0, last_stop |-> idx, flushes |-> <<>>]

RECURSIVE SeqMatch(_, _, _, _)
RECURSIVE SeqLoop(_, _, _, _, _, _)

\* elem.match(segments, idx, c) for the elements that consume input.
ElemMatch(elem, segments, idx, c) ==
    IF elem.kind = "leaf"
    THEN Returned(LeafMatch(elem, segments, idx), c, <<>>)
    ELSE SeqMatch(elem, segments, idx, c)

\* Sequence.match after its loop: the buffered metas, the leftover of a greedy
\* match and the result.
SeqTail(g, segments, idx, c, st) ==
    LET ins == st.ins \o MetasAt(idx, st.meta_buffer)
        greedy == g.mode \in {"GREEDY", "GREEDY_ONCE_STARTED"}
                      /\ st.max_idx > st.matched_idx
        from == SkipForward(segments, st.matched_idx, st.max_idx)
        to == SkipBackward(segments, st.max_idx, from)
        left == greedy /\ to > from
        kids == IF left
                THEN Append(st.kids, MR(from + 1, to, "unparsable",
                                        "Nothing here.", <<>>, <<>>))
                ELSE st.kids
        matched_idx == IF left THEN to + 1 ELSE st.matched_idx
    IN  Returned(MR(idx, matched_idx - 2, "", "", ins, kids), c,
                 History(IF left THEN "end_leftover" ELSE "end", st, 0))

\* One element that consumes input, tried at _idx inside a deeper_match scope
\* (lines 175-244), then the rest of the loop.
SeqElement(g, segments, idx, c, k, st, at) ==
    LET elem == g.elements[k]
        e == DeeperEnter(c, <<"Sequence-@", idx>>, FALSE, <<>>, "None")
        \* The scope yields None: the element is matched with no context.
        r == ElemMatch(elem, SubSeq(segments, 1, st.max_idx), at, NoneCtx)
        c2 == DeeperExit(e.ctx, e.loc)
        tried == [st EXCEPT !.attempts =
                      Append(@, [at |-> at, limit |-> st.max_idx])]
    IN  IF r.raised # "" THEN Raised(r.raised, c2, History("raised", tried, 0))
        ELSE IF ~Truthy(r.m)
        THEN IF elem.optional THEN SeqLoop(g, segments, idx, c2, k + 1, tried)
             ELSE IF ElementFailsOutright(g.mode, st.matched_idx, idx)
             THEN Returned(EmptyAt(idx), c2, History("fail", tried, k))
             ELSE IF st.matched_idx = idx
             THEN Returned(MR(idx, st.max_idx, "unparsable", "to start sequence",
                              <<>>, <<>>),
                           c2, History("unparsable_start", tried, k))
             ELSE IF ~IndexOk(segments, st.matched_idx - 1)
             THEN Raised("IndexError", c2, History("raised", tried, k))
             ELSE LET from == SkipForward(segments, st.matched_idx, st.max_idx)
                  IN  Returned(MR(idx, st.max_idx, "", "", st.ins,
                                  Append(st.kids,
                                         MR(from, st.max_idx, "unparsable",
                                            "after", <<>>, <<>>))),
                               c2, History("partial", tried, k))
        ELSE LET matched_idx == r.m.stop + 1
                 trim == st.first_match /\ g.mode = "GREEDY_ONCE_STARTED"
                 flushed == st.ins \o FlushMetas(st.matched_idx, at,
                                                 st.meta_buffer, segments)
                 next == [matched_idx |-> matched_idx,
                          max_idx |-> IF trim
                                      THEN TrimToTerminator(segments, matched_idx,
                                               g.terminators \o c2.terminators)
                                      ELSE st.max_idx,
                          ins |-> IF r.m.cls # "" THEN flushed
                                  ELSE flushed \o r.m.ins,
                          kids |-> IF r.m.cls # "" THEN Append(st.kids, r.m)
                                   ELSE st.kids \o r.m.kids,
                          first_match |-> IF trim THEN FALSE ELSE st.first_match,
                          meta_buffer |-> <<>>,
                          attempts |-> tried.attempts,
                          nmatched |-> st.nmatched + 1,
                          last_stop |-> r.m.stop,
                          flushes |-> Append(st.flushes,
                                         [prev_stop |-> st.last_stop,
                                          start |-> r.m.start,
                                          stop |-> r.m.stop,
                                          metas |-> st.meta_buffer])]
             IN  SeqLoop(g, segments, idx, c2, k + 1, next)

\* The loop of Sequence.match from its k-th element on (lines 137-244).
SeqLoop(g, segments, idx, c, k, st) ==
    IF k > Len(g.elements) THEN SeqTail(g, segments, idx, c, st)
    ELSE LET elem == g.elements[k] IN
    IF elem.kind = "cond"
    THEN \* Conditional.match reads the indentation configuration of its context.
         IF IsNone(c) THEN Raised("AttributeError", c, History("raised", st, 0))
         ELSE SeqLoop(g, segments, idx, c, k + 1,
                      [st EXCEPT !.meta_buffer =
                           IF elem.enabled THEN Append(@, elem.indent_val) ELSE @])
    ELSE IF elem.kind = "meta"
    THEN SeqLoop(g, segments, idx, c, k + 1,
                 [st EXCEPT !.meta_buffer = Append(@, elem.indent_val)])
    ELSE LET at == IF g.allow_gaps
                   THEN SkipForward(segments, st.matched_idx, st.max_idx)
                   ELSE st.matched_idx
         IN
    IF at >= st.max_idx
    THEN IF elem.optional THEN SeqLoop(g, segments, idx, c, k + 1, st)
         ELSE IF NothingLeftFails(g.mode, st.matched_idx, idx)
         THEN Returned(EmptyAt(idx), c, History("fail_nothing_left", st, k))
         ELSE IF ~IndexOk(segments, st.matched_idx - 1)
         THEN Raised("IndexError", c, History("raised_nothing_left", st, k))
         ELSE Returned(Wrap(MR(idx + 1, st.matched_idx, "", "",
                               st.ins \o MetasAt(st.matched_idx, st.meta_buffer),
                               st.kids),
                            "unparsable", "Found nothing."),
                       c, History("wrapped_nothing_left", st, k))
    ELSE IF IsNone(c)
    THEN \* parse_context.deeper_match on None.
         Raised("AttributeError", c, History("raised", st, 0))
    ELSE SeqElement(g, segments, idx, c, k, st, at)

\* Sequence.match(segments, idx, parse_context) of the grammar g; c is the
\* context, NoneCtx when the caller passes None.
SeqMatch(g, segments, idx, c) ==
    IF g.mode = "GREEDY" /\ IsNone(c)
    THEN \* parse_context.terminators on None.
         Raised("AttributeError", c,
                History("raised", LoopStart(segments, idx, Len(segments)), 0))
    ELSE SeqLoop(g, segments, idx, c, 1,
                 LoopStart(segments, idx,
                     IF g.mode = "GREEDY"
                     THEN TrimToTerminator(segments, idx,
                                           g.terminators \o c.terminators)
                     ELSE Len(segments)))

(***************************************************************************)
(* Sequence.match called on a token sequence.                              *)
(***************************************************************************)
MaxSegs == 3

Toks == {"A", "B", "T", "ws"}

SegSeqs == UNION {[1..n -> Toks] : n \in 0..MaxSegs}

LeafA == [kind |-> "leaf", raw |-> "A", optional |-> FALSE]

LeafB == [kind |-> "leaf", raw |-> "B", optional |-> FALSE]

LeafBOpt == [kind |-> "leaf", raw |-> "B", optional |-> TRUE]

Indent == [kind |-> "meta", indent_val |-> 1]

Dedent == [kind |-> "meta", indent_val |-> -1]

CondIndent == [kind |-> "cond", indent_val |-> 1, enabled |-> TRUE]

\* Sequence(*elements, terminators, allow_gaps, optional, parse_mode).
Sequence(elements, mode, allow_gaps, terms, optional) ==
    [kind |-> "seq", elements |-> elements, mode |-> mode,
     allow_gaps |-> allow_gaps, terminators |-> terms, optional |-> optional]

SeqOfB == Sequence(<<LeafB>>, "STRICT", TRUE, <<>>, FALSE)

ElementLists ==
    {<<LeafA>>, <<LeafA, LeafB>>, <<LeafA, LeafBOpt>>, <<LeafBOpt, LeafA>>,
     <<LeafA, LeafBOpt, LeafA>>, <<Indent, LeafA, Dedent>>,
     <<LeafA, Indent, LeafB, Dedent>>, <<LeafA, CondIndent, LeafB>>,
     <<LeafA, SeqOfB>>, <<SeqOfB>>}

ParseModes == {"STRICT", "GREEDY", "GREEDY_ONCE_STARTED"}

\* The context of the caller: a new context, or one inside the scope in which
\* a caller pushed its terminators.
CallerCtx(push) ==
    IF push = <<>> THEN InitCtx
    ELSE DeeperEnter(InitCtx, "Delimited", FALSE, push, "None").ctx

InitSeq ==
    /\ \E segments \in SegSeqs, idx \in 0..1, elements \in ElementLists,
          mode \in ParseModes, allow_gaps \in BOOLEAN,
          terms \in {<<>>, <<"T">>}, outer \in {<<>>, <<"B">>} :
           /\ idx <= Len(segments)
           /\ inp = [segments |-> segments, idx |-> idx,
                     grammar |-> Sequence(elements, mode, allow_gaps, terms, FALSE)]
           /\ CtxIs(CallerCtx(outer))
    /\ frames = <<>>
    /\ raising = ""
    /\ last = NoEvent
    /\ pc = "seq_call"
    /\ res = <<>>

\* grammar.match(segments, idx, parse_context) from its call to its return or
\* to the exception that leaves it.
SeqCall ==
    /\ pc = "seq_call"
    /\ LET r == SeqMatch(inp.grammar, inp.segments, inp.idx, Ctx)
       IN  /\ res' = r
           /\ SetCtx(r.ctx)
           /\ raising' = r.raised
    /\ pc' = "seq_done"
    /\ UNCHANGED <<frames, last, inp>>

NextSeq == SeqCall

SpecSeq == InitSeq /\ [][NextSeq]_vars

(***************************************************************************)
(* Sequence.match called on a token sequence that holds the placeholders   *)
(* of template blocks, with grammars that buffer metas before and after    *)
(* their elements.                                                         *)
(***************************************************************************)
MaxMetaSegs == 4

MetaToks == {"A", "B", "ws", "{%", "%}", "{{"}

MetaSegSeqs == UNION {[1..n -> MetaToks] : n \in 0..MaxMetaSegs}

MetaElementLists ==
    {<<LeafA, Indent, LeafB>>, <<LeafA, Dedent, LeafB>>,
     <<LeafA, Indent, Dedent, LeafB>>, <<Indent, LeafA, Dedent>>,
     <<LeafA, Indent, LeafB, Dedent>>, <<LeafA, LeafBOpt, Dedent>>}

InitMeta ==
    /\ \E segments \in MetaSegSeqs, idx \in 0..1, elements \in MetaElementLists,
          mode \in ParseModes, allow_gaps \in BOOLEAN :
           /\ idx <= Len(segments)
           /\ inp = [segments |-> segments, idx |-> idx,
                     grammar |-> Sequence(elements, mode, allow_gaps, <<>>, FALSE)]
           /\ CtxIs(InitCtx)
    /\ frames = <<>>
    /\ raising = ""
    /\ last = NoEvent
    /\ pc = "seq_call"
    /\ res = <<>>

SpecMeta == InitMeta /\ [][NextSeq]_vars

(***************************************************************************)
(* Bracketed (grammar/sequence.py).                                        *)
(*                                                                         *)
(* The dialect's round brackets: get_bracket_from_dialect gives the parser *)
(* of "(", the parser of ")" and the pair's persists flag.                 *)
(***************************************************************************)
StartBracket == [kind |-> "leaf", raw |-> "(", optional |-> FALSE]

EndBracket == [kind |-> "leaf", raw |-> ")", optional |-> FALSE]

\* One of the matchers matches the token at index i.
AnyMatchesAt(matchers, segments, i) ==
    \E k \in 1..Len(matchers) : Truthy(LeafMatch(matchers[k], segments, i))

\* The scan of resolve_bracket from index i at nesting depth depth: a match of
\* start_brackets opens a nested pair, a match of end_brackets closes one, and
\* the scan stops at the close that brings the depth back to zero.  The index
\* of that token, -1 when the input ends first.
RECURSIVE ScanBrackets(_, _, _, _, _)
ScanBrackets(segments, i, depth, start_brackets, end_brackets) ==
    IF i >= Len(segments) THEN -1
    ELSE IF AnyMatchesAt(end_brackets, segments, i)
    THEN IF depth = 1 THEN i
         ELSE ScanBrackets(segments, i + 1, depth - 1, start_brackets, end_brackets)
    ELSE IF AnyMatchesAt(start_brackets, segments, i)
    THEN ScanBrackets(segments, i + 1, depth + 1, start_brackets, end_brackets)
    ELSE ScanBrackets(segments, i + 1, depth, start_brackets, end_brackets)

\* resolve_bracket: the match from the opening bracket through its close, the
\* two brackets its children, wrapped as a bracketed segment when the pair
\* persists; SQLParseError when the input ends before the close.
ResolveBracket(segments, opening_match, start_brackets, end_brackets, persists) ==
    LET close == ScanBrackets(segments, opening_match.stop, 1,
                              start_brackets, end_brackets)
        m == MR(opening_match.start, close + 1, "", "", <<>>,
                <<opening_match, MR(close, close + 1, "keyword", "", <<>>, <<>>)>>)
    IN  IF close < 0 THEN [raised |-> "SQLParseError", m |-> EmptyAt(-1)]
        ELSE [raised |-> "",
              m |-> IF persists THEN Wrap(m, "bracketed", "") ELSE m]

\* is_zero_slice(slice(start, stop)).
IsZeroSlice(start, stop) == start = stop

\* MatchResult.prepend: the other match becomes the first child of the
\* combined match.
Prepend(m, other) ==
    MR(IF other.start < m.start THEN other.start ELSE m.start,
       IF other.stop > m.stop THEN other.stop ELSE m.stop,
       "", "", m.ins,
       <<other>> \o (IF m.cls # "" THEN <<m>> ELSE m.kids))

\* The history of a call of Bracketed.match: the branch it left by, the
\* indices between which the content was matched, the stop of the content
\* match, the index of the bracket that resolve_bracket stopped at, whether
\* the content was matched at all and the context's terminators while it was.
BrHistory(path, _idx, _end_idx, content_stop, close, tried, inside) ==
    [path |-> path, _idx |-> _idx, _end_idx |-> _end_idx,
     content_stop |-> content_stop, close |-> close,
     content_tried |-> tried, inside |-> inside]

BrNoContent(path) == BrHistory(path, -1, -1, -1, -1, FALSE, <<>>)

\* The Sequence whose match is super().match of a Bracketed.
BracketedGrammar(elements, mode, allow_gaps) ==
    Sequence(elements, mode, allow_gaps, <<>>, FALSE)

\* Bracketed.match up to the scope in which the content is matched (lines
\* 363-395).  debug is __debug__: the assert statement of line 385 is
\* compiled only when it is true.  The result says whether the call is over
\* (done) and with what (r); when it is not, ctx is the context inside the
\* "Bracketed" scope and frame what the call keeps for after it.
BracketedOpen(g, segments, idx, c, persists, debug) ==
    LET s == DeeperEnter(c, "Bracketed-Start", FALSE, <<>>, "None")
        start_match == LeafMatch(EndBracket, segments, idx)
        c1 == DeeperExit(s.ctx, s.loc)
        rb == ResolveBracket(segments, start_match, <<EndBracket>>,
                             <<StartBracket>>, persists)
        bracketed_match == rb.m
        idx0 == start_match.stop
        end0 == bracketed_match.stop + 1
        _idx == IF ~g.allow_gaps THEN SkipForward(segments, idx0, Len(segments))
                ELSE idx0
        _end_idx == IF ~g.allow_gaps THEN SkipBackward(segments, end0, _idx)
                    ELSE end0
        e == DeeperEnter(c1, "Bracketed", FALSE, <<EndBracket.raw>>, "None")
    IN  IF ~Truthy(start_match)
        THEN [done |-> TRUE,
              r |-> Returned(EmptyAt(idx), c1, BrNoContent("no_start"))]
        ELSE IF rb.raised # ""
        THEN [done |-> TRUE, r |-> Raised(rb.raised, c1, BrNoContent("unclosed"))]
        ELSE IF debug /\ Truthy(bracketed_match)
        THEN [done |-> TRUE,
              r |-> Raised("AssertionError", c1, BrNoContent("assert"))]
        ELSE IF ~g.allow_gaps /\ end0 > _idx /\ ~IndexOk(segments, end0 - 1)
        THEN \* skip_stop_index_backward_to_code reads segments[_end_idx - 1].
             [done |-> TRUE,
              r |-> Raised("IndexError", c1, BrNoContent("index_error"))]
        ELSE [done |-> FALSE, ctx |-> e.ctx,
              frame |-> [loc |-> e.loc, bracketed_match |-> bracketed_match,
                         _idx |-> _idx, _end_idx |-> _end_idx]]

\* Bracketed.match from the match of the content on (lines 396-431); c is the
\* context inside the "Bracketed" scope.
BracketedClose(g, segments, c, f) ==
    LET limit == IF f._end_idx < Len(segments) THEN f._end_idx ELSE Len(segments)
        cm == SeqMatch(g, SubSeq(segments, 1, limit), f._idx + 1, NoneCtx)
        c2 == DeeperExit(c, f.loc)
        bm == f.bracketed_match
        content_match == cm.m
        gh(path) == BrHistory(path, f._idx, f._end_idx, content_match.stop,
                              bm.stop - 1, TRUE, c.terminators)
        gap == MR(content_match.stop, bm.stop + 1, "unparsable", "elements",
                  <<>>, <<>>)
        content == IF g.allow_gaps \/ IsZeroSlice(content_match.stop, bm.stop + 1)
                   THEN Prepend(content_match, gap)
                   ELSE content_match
        kids == IF content.cls = "" THEN Append(bm.kids, content)
                ELSE bm.kids \o content.kids
    IN  IF cm.raised # "" THEN Raised(cm.raised, c2, gh("content_raised"))
        ELSE IF content_match.stop # f._end_idx /\ g.mode = "GREEDY"
        THEN Returned(EmptyAt(f._idx), c2, gh("greedy_short"))
        ELSE Returned(MR(bm.start, bm.stop, bm.cls, bm.expected, bm.ins, kids),
                      c2, gh("matched"))

(***************************************************************************)
(* Bracketed.match called on a token sequence.                             *)
(***************************************************************************)
MaxBrSegs == 4

BrToks == {"(", ")", "A", "ws"}

BrSegSeqs == UNION {[1..n -> BrToks] : n \in 0..MaxBrSegs}

BrElementLists == {<<>>, <<LeafA>>, <<LeafBOpt>>}

InitBr ==
    /\ \E segments \in BrSegSeqs, idx \in 0..1, elements \in BrElementLists,
          mode \in ParseModes, allow_gaps \in BOOLEAN, persists \in BOOLEAN,
          debug \in BOOLEAN, outer \in {<<"A">>} :
           /\ idx <= Len(segments)
           /\ inp = [segments |-> segments, idx |-> idx,
                     grammar |-> BracketedGrammar(elements, mode, allow_gaps),
                     persists |-> persists, debug |-> debug, outer |-> outer]
           /\ CtxIs(CallerCtx(outer))
    /\ frames = <<>>
    /\ raising = ""
    /\ last = NoEvent
    /\ pc = "br_call"
    /\ res = <<>>

\* Bracketed.match from its call to the scope of its content, or to its
\* return or the exception that leaves it before that.
BrCall ==
    /\ pc = "br_call"
    /\ LET o == BracketedOpen(inp.grammar, inp.segments, inp.idx, Ctx,
                              inp.persists, inp.debug)
       IN  IF o.done
           THEN /\ res' = o.r
                /\ SetCtx(o.r.ctx)
                /\ raising' = o.r.raised
                /\ pc' = "br_done"
                /\ UNCHANGED frames
           ELSE /\ SetCtx(o.ctx)
                /\ frames' = <<o.frame>>
                /\ pc' = "br_content"
                /\ UNCHANGED <<res, raising>>
    /\ UNCHANGED <<last, inp>>

\* The body of the "Bracketed" scope, the scope's exit and the rest of
\* Bracketed.match.
BrContent ==
    /\ pc = "br_content"
    /\ LET r == BracketedClose(inp.grammar, inp.segments, Ctx, frames[1])
       IN  /\ res' = r
           /\ SetCtx(r.ctx)
           /\ raising' = r.raised
    /\ frames' = <<>>
    /\ pc' = "br_done"
    /\ UNCHANGED <<last, inp>>

NextBr == BrCall \/ BrContent

SpecBr == InitBr /\ [][NextBr]_vars

(***************************************************************************)
(* Delimited (grammar/delimited.py).                                       *)
(*                                                                         *)
(* A matcher is the raw text it matches; NonCodeMatcher() is "<noncode>".  *)
(***************************************************************************)
\* [t for t in terminators if t not in delimiter_matchers]
RECURSIVE Without(_, _)
Without(terms, delimiter_matchers) ==
    IF terms = <<>> THEN <<>>
    ELSE (IF InSeq(terms[1], delimiter_matchers) THEN <<>> ELSE <<terms[1]>>)
             \o Without(Tail(terms), delimiter_matchers)

\* The terminator_matchers of Delimited.match (lines 104-115).
TerminatorMatchers(g, c) ==
    g.terminators \o Without(c.terminators, <<g.delimiter>>)
        \o (IF ~g.allow_gaps THEN <<"<noncode>">> ELSE <<>>)

\* Delimited(*elements, delimiter, allow_trailing, terminators,
\* min_delimiters, allow_gaps).
Delimited(elements, delimiter, allow_trailing, terms, min_delimiters, allow_gaps) ==
    [kind |-> "delimited", elements |-> elements, delimiter |-> delimiter,
     allow_trailing |-> allow_trailing, terminators |-> terms,
     min_delimiters |-> min_delimiters, allow_gaps |-> allow_gaps]

\* The history of a call of Delimited.match: its locals when it was left.
DelHistory(g, segments, idx, terminator_matchers) ==
    [delimiters |-> 0, seeking_delimiter |-> FALSE, max_idx |-> Len(segments),
     working_idx |-> idx, working_match |-> EmptyAt(idx),
     terminator_matchers |-> terminator_matchers]

\* Delimited.match(segments, idx, parse_context).  The locals are set and the
\* terminator matchers collected; the first pass of the loop then evaluates
\* len(seg_buff) at line 123.  seg_buff is a local of the function (it is
\* assigned at line 175) that nothing has assigned yet, so the call is left
\* by UnboundLocalError before anything is matched.
DelMatch(g, segments, idx, c) ==
    IF IsNone(c)
    THEN Raised("AttributeError", c, DelHistory(g, segments, idx, <<>>))
    ELSE Raised("UnboundLocalError", c,
                DelHistory(g, segments, idx, TerminatorMatchers(g, c)))

(***************************************************************************)
(* Delimited.match called on a token sequence.                             *)
(***************************************************************************)
MaxDelSegs == 3

DelToks == {"A", ",", "T", "ws"}

DelSegSeqs == UNION {[1..n -> DelToks] : n \in 0..MaxDelSegs}

InitDel ==
    /\ \E segments \in DelSegSeqs, idx \in 0..1, allow_trailing \in BOOLEAN,
          allow_gaps \in BOOLEAN, min_delimiters \in 0..1,
          terms \in {<<>>, <<"T">>}, outer \in {<<>>, <<",">>, <<"T", ",">>} :
           /\ idx <= Len(segments)
           /\ inp = [segments |-> segments, idx |-> idx, outer |-> outer,
                     grammar |-> Delimited(<<LeafA>>, ",", allow_trailing, terms,
                                           min_delimiters, allow_gaps)]
           /\ CtxIs(CallerCtx(outer))
    /\ frames = <<>>
    /\ raising = ""
    /\ last = NoEvent
    /\ pc = "del_call"
    /\ res = <<>>

\* Delimited.match from its call to its return or to the exception that
\* leaves it.
DelCall ==
    /\ pc = "del_call"
    /\ LET r == DelMatch(inp.grammar, inp.segments, inp.idx, Ctx)
       IN  /\ res' = r
           /\ SetCtx(r.ctx)
           /\ raising' = r.raised
    /\ pc' = "del_done"
    /\ UNCHANGED <<frames, last, inp>>

NextDel == DelCall

SpecDel == InitDel /\ [][NextDel]_vars

(***************************************************************************)
(* NonCodeMatcher (grammar/noncode.py).                                    *)
(***************************************************************************)
\* The loop of NonCodeMatcher.match from index i: the value of matched_idx
\* when the loop is left, by its break or by the end of its range.
RECURSIVE NonCodeScan(_, _)
NonCodeScan(segments, i) ==
    IF ~IsCode(segments[i + 1]) THEN i
    ELSE IF i + 1 >= Len(segments) THEN i
    ELSE NonCodeScan(segments, i + 1)

\* NonCodeMatcher.match(segments, idx, parse_context).
NonCodeMatch(segments, idx) ==
    LET matched_idx == IF idx >= Len(segments) THEN idx
                       ELSE NonCodeScan(segments, idx)
    IN  IF matched_idx > idx
        THEN MR(matched_idx, idx, "", "", <<>>, <<>>)
        ELSE EmptyAt(idx + 1)

(***************************************************************************)
(* NonCodeMatcher.match called on a token sequence.                        *)
(***************************************************************************)
MaxNcSegs == 3

NcToks == {"A", "B", "ws", "{{"}

NcSegSeqs == UNION {[1..n -> NcToks] : n \in 0..MaxNcSegs}

InitNc ==
    /\ \E segments \in NcSegSeqs, idx \in 0..MaxNcSegs :
           /\ idx <= Len(segments)
           /\ inp = [segments |-> segments, idx |-> idx]
    /\ CtxIs(InitCtx)
    /\ frames = <<>>
    /\ raising = ""
    /\ last = NoEvent
    /\ pc = "nc_call"
    /\ res = <<>>

\* NonCodeMatcher().match(segments, idx, parse_context) from its call to its
\* return; the context is not read.
NcCall ==
    /\ pc = "nc_call"
    /\ res' = Returned(NonCodeMatch(inp.segments, inp.idx), Ctx, <<>>)
    /\ pc' = "nc_done"
    /\ UNCHANGED <<ctxvars, frames, raising, last, inp>>

NextNc == NcCall

SpecNc == InitNc /\ [][NextNc]_vars

(***************************************************************************)
(* BaseFileSegment.root_parse (segments/file.py) and Parser.parse          *)
(* (parser.py).                                                            *)
(*                                                                         *)
(* A token of the input is its raw text and its position in the tuple      *)
(* handed to root_parse.  A segment of the file is a node: its type ("raw" *)
(* for a token left as it is) and the tokens under it.                     *)
(***************************************************************************)
TokensOf(segments) ==
    [i \in 1..Len(segments) |-> [raw |-> segments[i], pos |-> i - 1]]

\* s[a:b] for indices that are not negative.
PySlice(s, a, b) == SubSeq(s, a + 1, IF b < Len(s) THEN b ELSE Len(s))

\* s[i] for an index within range, counted from the end when it is negative.
PyIndex(s, i) == IF i < 0 THEN s[Len(s) + i + 1] ELSE s[i + 1]

\* for i in range(i, len(toks)): if toks[i].is_code == at_code: break -- the
\* value of the loop variable afterwards (toks is not empty).
RECURSIVE ForBreak(_, _, _)
ForBreak(toks, i, at_code) ==
    IF IsCode(toks[i + 1].raw) = at_code THEN i
    ELSE IF i + 1 >= Len(toks) THEN i
    ELSE ForBreak(toks, i + 1, at_code)

\* for _end_idx in range(e, _start_idx - 1, -1):
\*     if not segments[_end_idx - 1].is_code: break
RECURSIVE EndScan(_, _, _)
EndScan(toks, e, _start_idx) ==
    IF ~IsCode(PyIndex(toks, e - 1).raw) THEN e
    ELSE IF e <= _start_idx THEN e
    ELSE EndScan(toks, e - 1, _start_idx)

\* The tokens as segments of their own.
RawNodes(toks) == [i \in 1..Len(toks) |-> [type |-> "raw", leaves |-> <<toks[i]>>]]

\* UnparsableSegment(toks, expected=...).
UnparsableNode(toks) == [type |-> "unparsable", leaves |-> toks]

\* MatchResult.apply: the segments a match stands for; none for a failed
\* match, one of the matched class over the matched tokens otherwise.
Apply(m, toks) ==
    IF ~Truthy(m) THEN <<>>
    ELSE IF m.cls = "" THEN RawNodes(PySlice(toks, m.start, m.stop))
    ELSE <<[type |-> m.cls, leaves |-> PySlice(toks, m.start, m.stop)]>>

\* What a call of root_parse or of Parser.parse gives: the exception that
\* left it ("" when it returned), the value returned and the history of
\* root_parse.
FileResult(raised, value, gh) == [raised |-> raised, value |-> value, gh |-> gh]

FileSegment(nodes) == [kind |-> "file", nodes |-> nodes]

NoneValue == [kind |-> "None"]

\* The history of root_parse: the two indices it computed, whether the root
\* grammar was invoked, and the tuple and index it was invoked with.
RootHistory(_start_idx, _end_idx, invoked, given, at) ==
    [_start_idx |-> _start_idx, _end_idx |-> _end_idx, invoked |-> invoked,
     given |-> given, at |-> at]

\* BaseFileSegment.root_parse(segments, parse_context) for a file segment
\* whose match_grammar is the token parser root.  debug is __debug__.
RootParse(segments, root, debug) ==
    LET toks == TokensOf(segments)
        n == Len(segments)
        _start_idx == ForBreak(toks, 0, FALSE)
        _end_idx == EndScan(toks, n, _start_idx)
        given == PySlice(segments, _end_idx, n)
        match == LeafMatch(root, given, _start_idx)
        _matched == Apply(match, toks)
        _unmatched == PySlice(toks, match.stop, _end_idx)
        _idx == ForBreak(_unmatched, 0, TRUE)
        content ==
            IF ~Truthy(match)
            THEN <<UnparsableNode(PySlice(toks, _start_idx, _end_idx))>>
            ELSE IF _unmatched # <<>>
            THEN _matched \o RawNodes(PySlice(_unmatched, _idx, Len(_unmatched)))
                     \o <<UnparsableNode(PySlice(_unmatched, 0, _idx))>>
            ELSE _matched \o RawNodes(_unmatched)
    IN  IF n = 0
        THEN \* segments[_end_idx - 1] at line 66 on the empty tuple.
             FileResult("IndexError", NoneValue,
                        RootHistory(0, 0, FALSE, <<>>, 0))
        ELSE IF _start_idx = _end_idx
        THEN FileResult("", FileSegment(RawNodes(toks)),
                        RootHistory(_start_idx, _end_idx, FALSE, <<>>, 0))
        ELSE IF debug
        THEN \* assert not cls.match_grammar (line 75).
             FileResult("AssertionError", NoneValue,
                        RootHistory(_start_idx, _end_idx, FALSE, <<>>, 0))
        ELSE FileResult("",
                 FileSegment(RawNodes(PySlice(toks, _start_idx, n)) \o content
                                 \o RawNodes(PySlice(toks, 0, _end_idx))),
                 RootHistory(_start_idx, _end_idx, TRUE, given, _start_idx))

\* tuple(reversed(segments))
Reversed(s) == [i \in 1..Len(s) |-> s[Len(s) + 1 - i]]

\* The raw text of the tokens of a file segment, in order.
RECURSIVE LeafRaws(_)
LeafRaws(nodes) ==
    IF nodes = <<>> THEN <<>>
    ELSE [i \in 1..Len(nodes[1].leaves) |-> nodes[1].leaves[i].raw]
             \o LeafRaws(Tail(nodes))

\* check_still_complete(segments_in, (root,), ()): the raw text of the tree
\* is the raw text of the tokens that went in.
StillComplete(segments, root_segment) ==
    LeafRaws(root_segment.nodes) = segments

\* Parser.parse(segments): the tokens are handed to root_parse reversed, the
\* tree is checked against the tokens, and None is returned (line 66).
ParserParse(segments, root, debug) ==
    LET r == RootParse(Reversed(segments), root, debug)
    IN  IF r.raised # "" THEN r
        ELSE IF ~StillComplete(segments, r.value)
        THEN FileResult("SQLParseError", NoneValue, r.gh)
        ELSE FileResult("", NoneValue, r.gh)

(***************************************************************************)
(* A token sequence is parsed, by Parser.parse or by root_parse directly.  *)
(***************************************************************************)
MaxFileSegs == 4

FileToks == {"A", "B", "ws"}

FileSegSeqs == UNION {[1..n -> FileToks] : n \in 0..MaxFileSegs}

InitFile ==
    /\ \E segments \in FileSegSeqs, debug \in BOOLEAN,
          entry \in {"parse_call", "root_call"} :
           /\ inp = [segments |-> segments, root |-> LeafA, debug |-> debug]
           /\ pc = entry
    /\ CtxIs(InitCtx)
    /\ frames = <<>>
    /\ raising = ""
    /\ last = NoEvent
    /\ res = <<>>

\* RootSegment.root_parse(segments, parse_context) from its call to its
\* return or to the exception that leaves it.
RootParseCall ==
    /\ pc = "root_call"
    /\ LET r == RootParse(inp.segments, inp.root, inp.debug)
       IN  /\ res' = r
           /\ raising' = r.raised
    /\ pc' = "root_done"
    /\ UNCHANGED <<ctxvars, frames, last, inp>>

\* Parser.parse(segments) from its call to its return or to the exception
\* that leaves it.
ParseCall ==
    /\ pc = "parse_call"
    /\ LET r == ParserParse(inp.segments, inp.root, inp.debug)
       IN  /\ res' = r
           /\ raising' = r.raised
    /\ pc' = "parse_done"
    /\ UNCHANGED <<ctxvars, frames, last, inp>>

NextFile == RootParseCall \/ ParseCall

SpecFile == InitFile /\ [][NextFile]_vars

(***************************************************************************)
(* PythonTemplater (templaters/python.py).                                 *)
(*                                                                         *)
(* A string is the sequence of its characters.  string.Formatter.parse is  *)
(* the parser of the Python library: it cuts a format string into items of *)
(* literal text and a replacement field, a literal text ending with the    *)
(* brace that an escaped "{{" or "}}" stands for.                          *)
(***************************************************************************)
\* An item of Formatter.parse; field_name, format_spec and conversion are
\* None when the item has no field, which present tells.
FmtItem(literal_text, present, field_name, conversion, format_spec) ==
    [literal_text |-> literal_text, present |-> present,
     field_name |-> field_name, conversion |-> conversion,
     format_spec |-> format_spec]

\* The scan of a format specification from position i (1-based) at nesting
\* depth count: the position just after the brace that closes the field, 0
\* when the string ends first.
RECURSIVE SpecEnd(_, _, _)
SpecEnd(str, i, count) ==
    IF i > Len(str) THEN 0
    ELSE IF str[i] = "{" THEN SpecEnd(str, i + 1, count + 1)
    ELSE IF str[i] = "}"
    THEN (IF count = 1 THEN i + 1 ELSE SpecEnd(str, i + 1, count - 1))
    ELSE SpecEnd(str, i + 1, count)

\* The scan of a field name from position i: the position of the character
\* that ends it ("}", ":" or "!"), 0 when the name holds "{" or the string
\* ends first.
RECURSIVE NameEnd(_, _)
NameEnd(str, i) ==
    IF i > Len(str) THEN 0
    ELSE IF str[i] = "{" THEN 0
    ELSE IF str[i] \in {"}", ":", "!"} THEN i
    ELSE NameEnd(str, i + 1)

\* The replacement field whose text begins at position i, just after its
\* opening brace: ok is false when the field is malformed, next is the
\* position just after the field.
ParseField(str, i) ==
    LET e == NameEnd(str, i)
        name == SubSeq(str, i, e - 1)
        bad == [ok |-> FALSE, next |-> 0, field_name |-> <<>>,
                conversion |-> <<>>, format_spec |-> <<>>]
        spec(from, conv) ==
            LET n == SpecEnd(str, from, 1)
            IN  IF n = 0 THEN bad
                ELSE [ok |-> TRUE, next |-> n, field_name |-> name,
                      conversion |-> conv,
                      format_spec |-> SubSeq(str, from, n - 2)]
    IN  IF e = 0 THEN bad
        ELSE IF str[e] = "}"
        THEN [ok |-> TRUE, next |-> e + 1, field_name |-> name,
              conversion |-> <<>>, format_spec |-> <<>>]
        ELSE IF str[e] = ":" THEN spec(e + 1, <<>>)
        ELSE \* "!": the next character is the conversion.
             IF e + 1 > Len(str) THEN bad
             ELSE IF e + 2 > Len(str) THEN bad
             ELSE IF str[e + 2] = "}"
             THEN [ok |-> TRUE, next |-> e + 3, field_name |-> name,
                   conversion |-> <<str[e + 1]>>, format_spec |-> <<>>]
             ELSE IF str[e + 2] # ":" THEN bad
             ELSE spec(e + 3, <<str[e + 1]>>)

\* The position of the first brace of str at or after position i, 0 when
\* there is none.
RECURSIVE NextBrace(_, _)
NextBrace(str, i) ==
    IF i > Len(str) THEN 0
    ELSE IF str[i] \in {"{", "}"} THEN i
    ELSE NextBrace(str, i + 1)

\* Formatter().parse(str) from position i on: the items, and whether the
\* string is well formed (ValueError when it is not).
RECURSIVE FmtParse(_, _)
FmtParse(str, i) ==
    IF i > Len(str) THEN [ok |-> TRUE, items |-> <<>>]
    ELSE LET b == NextBrace(str, i)
             bad == [ok |-> FALSE, items |-> <<>>]
         IN  IF b = 0
             THEN [ok |-> TRUE,
                   items |-> <<FmtItem(SubSeq(str, i, Len(str)), FALSE,
                                       <<>>, <<>>, <<>>)>>]
             ELSE IF b < Len(str) /\ str[b + 1] = str[b]
             THEN \* An escaped brace ends the literal text.
                  LET rest == FmtParse(str, b + 2)
                  IN  IF ~rest.ok THEN bad
                      ELSE [ok |-> TRUE,
                            items |-> <<FmtItem(SubSeq(str, i, b), FALSE,
                                                <<>>, <<>>, <<>>)>>
                                          \o rest.items]
             ELSE IF str[b] = "}" \/ b = Len(str) THEN bad
             ELSE LET f == ParseField(str, b + 1)
                      rest == FmtParse(str, f.next)
                  IN  IF ~f.ok THEN bad
                      ELSE IF ~rest.ok THEN bad
                      ELSE [ok |-> TRUE,
                            items |-> <<FmtItem(SubSeq(str, i, b - 1), TRUE,
                                                f.field_name, f.conversion,
                                                f.format_spec)>>
                                          \o rest.items]

\* findall(substring, in_str) for a substring of one character: the indices
\* of its occurrences.
FindAll(ch, in_str) == {i \in 0..(Len(in_str) - 1) : in_str[i + 1] = ch}

\* _sorted_occurrence_tuples(_substring_occurrences(text, ["}", "{"])): the
\* braces of the text as (raw, index), sorted by index.
RECURSIVE SortedOccurrenceTuples(_, _)
SortedOccurrenceTuples(text, i) ==
    IF i >= Len(text) THEN <<>>
    ELSE (IF i \in FindAll("}", text) \cup FindAll("{", text)
          THEN <<[raw |-> text[i + 1], idx |-> i]>> ELSE <<>>)
             \o SortedOccurrenceTuples(text, i + 1)

RawFileSlice(raw, slice_type, source_idx) ==
    [raw |-> raw, slice_type |-> slice_type, source_idx |-> source_idx]

\* The while loop of _slice_template over the braces of a literal text
\* (lines 488-505) and the rest of the text after it (lines 507-509).
RECURSIVE EscapeLoop(_, _, _, _, _)
EscapeLoop(literal_text, escape_chars, idx, in_idx, out) ==
    IF escape_chars = <<>>
    THEN IF idx < Len(literal_text)
         THEN [out |-> Append(out, RawFileSlice(PySlice(literal_text, idx,
                                                        Len(literal_text)),
                                                "literal", in_idx)),
               in_idx |-> in_idx + Len(literal_text) - idx]
         ELSE [out |-> out, in_idx |-> in_idx]
    ELSE LET first_char == Last(escape_chars)
             lit == first_char.idx > idx
             out1 == IF lit
                     THEN Append(out, RawFileSlice(
                              PySlice(literal_text, idx, first_char.idx),
                              "literal", in_idx))
                     ELSE out
             in1 == IF lit THEN in_idx + first_char.idx - idx ELSE in_idx
             idx1 == first_char.idx + 1
             esc == PySlice(literal_text, first_char.idx, idx1)
         IN  EscapeLoop(literal_text, Front(escape_chars), idx1, in1 + 2,
                        Append(out1, RawFileSlice(esc \o esc, "escaped", in1)))

\* "{{{field_name}{conv}{spec}}}".format(...)
ConstructedToken(item) ==
    <<"{">> \o item.field_name
        \o (IF item.conversion # <<>> THEN <<"!">> \o item.conversion ELSE <<>>)
        \o (IF item.format_spec # <<>> THEN <<":">> \o item.format_spec ELSE <<>>)
        \o <<"}">>

\* The loop of _slice_template over the items of Formatter.parse.
RECURSIVE SliceItems(_, _, _)
SliceItems(items, in_idx, out) ==
    IF items = <<>> THEN out
    ELSE LET item == items[1]
             l == IF item.literal_text # <<>>
                  THEN EscapeLoop(item.literal_text,
                                  SortedOccurrenceTuples(item.literal_text, 0),
                                  0, in_idx, out)
                  ELSE [out |-> out, in_idx |-> in_idx]
             field == item.present /\ item.field_name # <<>>
             token == ConstructedToken(item)
         IN  SliceItems(Tail(items),
                        IF field THEN l.in_idx + Len(token) ELSE l.in_idx,
                        IF field
                        THEN Append(l.out, RawFileSlice(token, "templated", l.in_idx))
                        ELSE l.out)

\* list(PythonTemplater._slice_template(in_str)): the slices, or the
\* ValueError of Formatter.parse.
SliceTemplate(in_str) ==
    LET p == FmtParse(in_str, 1)
    IN  IF ~p.ok THEN [raised |-> "ValueError", slices |-> <<>>]
        ELSE [raised |-> "", slices |-> SliceItems(p.items, 0, <<>>)]

(***************************************************************************)
(* _slice_template called on a template string.                            *)
(***************************************************************************)
MaxTplLen == 4

TplChars == {"a", "{", "}", ":", "!"}

TplStrings == UNION {[1..n -> TplChars] : n \in 0..MaxTplLen}

InitTpl ==
    /\ \E in_str \in TplStrings : inp = [in_str |-> in_str]
    /\ CtxIs(InitCtx)
    /\ frames = <<>>
    /\ raising = ""
    /\ last = NoEvent
    /\ pc = "tpl_call"
    /\ res = <<>>

\* list(PythonTemplater._slice_template(in_str)) from its call to its return
\* or to the exception that leaves it.
SliceTemplateCall ==
    /\ pc = "tpl_call"
    /\ LET r == SliceTemplate(inp.in_str)
       IN  /\ res' = r
           /\ raising' = r.raised
    /\ pc' = "tpl_done"
    /\ UNCHANGED <<ctxvars, frames, last, inp>>

NextTpl == SliceTemplateCall

SpecTpl == InitTpl /\ [][NextTpl]_vars

(***************************************************************************)
(* PythonTemplater.slice_file and what it calls.  A slice is the record of *)
(* its start and stop.                                                     *)
(***************************************************************************)
Slice(start, stop) == [start |-> start, stop |-> stop]

TemplatedFileSlice(slice_type, source_slice, templated_slice) ==
    [slice_type |-> slice_type, source_slice |-> source_slice,
     templated_slice |-> templated_slice]

IntermediateFileSlice(intermediate_type, source_slice, templated_slice, slice_buffer) ==
    [intermediate_type |-> intermediate_type, source_slice |-> source_slice,
     templated_slice |-> templated_slice, slice_buffer |-> slice_buffer]

\* list(findall(substring, in_str)) for a substring that is not empty: the
\* indices of its occurrences, as a set.
Occurrences(substring, in_str) ==
    {i \in 0..(Len(in_str) - Len(substring)) :
         SubSeq(in_str, i + 1, i + Len(substring)) = substring}

\* The only element of a set of one.
Only(S) == CHOOSE x \in S : TRUE

\* The raws of the literal slices, in order (lines 335-339).
RECURSIVE Literals(_)
Literals(raw_sliced) ==
    IF raw_sliced = <<>> THEN <<>>
    ELSE (IF raw_sliced[1].slice_type = "literal"
          THEN <<raw_sliced[1].raw>> ELSE <<>>) \o Literals(Tail(raw_sliced))

\* sorted(invariants, key=len, reverse=True): the longest first, those of one
\* length in the order they have.
RECURSIVE LongestFirst(_)
LongestFirst(strs) ==
    IF strs = <<>> THEN <<>>
    ELSE LET k == CHOOSE k \in 1..Len(strs) :
                      /\ \A j \in 1..Len(strs) : Len(strs[j]) <= Len(strs[k])
                      /\ \A j \in 1..(k - 1) : Len(strs[j]) < Len(strs[k])
         IN  <<strs[k]>>
                 \o LongestFirst(SubSeq(strs, 1, k - 1)
                                     \o SubSeq(strs, k + 1, Len(strs)))

\* The loop of lines 543-564: the invariants that are in a different order
\* in the source and in the templated string than one still kept are removed.
RECURSIVE PruneInvariants(_, _, _, _)
PruneInvariants(order, invariants, raw_str, templated_str) ==
    IF order = <<>> THEN invariants
    ELSE LET linv == order[1]
             Keep(tinv) ==
                 \/ tinv = linv
                 \/ (Only(Occurrences(linv, raw_str))
                         > Only(Occurrences(tinv, raw_str)))
                    = (Only(Occurrences(linv, templated_str))
                           > Only(Occurrences(tinv, templated_str)))
         IN  PruneInvariants(Tail(order),
                             IF InSeq(linv, invariants)
                             THEN SelectSeq(invariants, Keep) ELSE invariants,
                             raw_str, templated_str)

\* The invariants of _split_invariants (lines 535-564).
Invariants(literals, raw_str, templated_str) ==
    LET Once(literal) ==
            /\ Cardinality(Occurrences(literal, raw_str)) = 1
            /\ Cardinality(Occurrences(literal, templated_str)) = 1
        invariants == SelectSeq(literals, Once)
    IN  PruneInvariants(LongestFirst(invariants), invariants, raw_str,
                        templated_str)

\* sum(len(slc.raw) for slc in buffer)
RECURSIVE RawLen(_)
RawLen(buffer) ==
    IF buffer = <<>> THEN 0 ELSE Len(buffer[1].raw) + RawLen(Tail(buffer))

\* The loop of _split_invariants over the raw slices (lines 567-620); idx is
\* -1 for None.
RECURSIVE SplitLoop(_, _, _, _, _, _, _)
SplitLoop(raw_sliced, invariants, templated_str, buffer, idx, templ_idx, out) ==
    IF raw_sliced = <<>>
    THEN IF buffer # <<>>
         THEN LET from == IF idx < 0 THEN 0 ELSE idx
              IN  Append(out, IntermediateFileSlice(
                      "compound", Slice(from, from + RawLen(buffer)),
                      Slice(templ_idx, Len(templated_str)), buffer))
         ELSE out
    ELSE LET rfs == raw_sliced[1] IN
         IF InSeq(rfs.raw, invariants)
         THEN LET at == Only(Occurrences(rfs.raw, templated_str))
                  out1 == IF buffer # <<>>
                          THEN Append(out, IntermediateFileSlice(
                                   "compound", Slice(idx, rfs.source_idx),
                                   Slice(templ_idx, at), buffer))
                          ELSE out
              IN  SplitLoop(Tail(raw_sliced), invariants, templated_str, <<>>,
                            -1, at + Len(rfs.raw),
                            Append(out1, IntermediateFileSlice(
                                "invariant",
                                Slice(rfs.source_idx, rfs.source_idx + Len(rfs.raw)),
                                Slice(at, at + Len(rfs.raw)),
                                <<RawFileSlice(rfs.raw, rfs.slice_type, at)>>)))
         ELSE SplitLoop(Tail(raw_sliced), invariants, templated_str,
                        Append(buffer, rfs),
                        IF idx < 0 THEN rfs.source_idx ELSE idx, templ_idx, out)

\* list(_split_invariants(raw_sliced, literals, raw_occurrences,
\* templated_occurrences, templated_str)).
SplitInvariants(raw_sliced, literals, raw_str, templated_str) ==
    SplitLoop(raw_sliced, Invariants(literals, raw_str, templated_str),
              templated_str, <<>>, -1, 0, <<>>)

\* list(_split_uniques_coalesce_rest(split_file, ...)): the tail buffer is
\* empty and is all that is yielded from (lines 676-686).
SplitUniquesCoalesceRest(split_file, templated_str) ==
    LET tail_buffer == <<>> IN tail_buffer

\* _check_for_wrapped(slices, templated_str, unwrap_wrapped).
CheckForWrapped(slices, templated_str, unwrap_wrapped) ==
    IF slices = <<>> THEN [slices |-> slices, templated_str |-> templated_str]
    ELSE LET first_slice == slices[1]
             last_slice == Last(slices)
             head == IF first_slice.source_slice.start = 0
                        /\ first_slice.templated_slice.start # 0
                     THEN <<TemplatedFileSlice("templated", Slice(0, 0),
                                Slice(0, first_slice.templated_slice.start))>>
                     ELSE <<>>
             tail == IF last_slice.templated_slice.stop # Len(templated_str)
                     THEN <<TemplatedFileSlice("templated",
                                Slice(last_slice.source_slice.stop,
                                      last_slice.source_slice.stop),
                                Slice(last_slice.templated_slice.stop,
                                      Len(templated_str)))>>
                     ELSE <<>>
         IN  IF unwrap_wrapped
             THEN [slices |-> slices,
                   templated_str |-> PySlice(templated_str,
                                             first_slice.templated_slice.start,
                                             last_slice.templated_slice.stop)]
             ELSE [slices |-> head \o slices \o tail,
                   templated_str |-> templated_str]

\* The loop of slice_file (lines 341-388) from its pass loop_idx on.
RECURSIVE SliceLoop(_, _, _, _, _)
SliceLoop(loop_idx, raw_str, raw_sliced, templated_str, unwrap_wrapped) ==
    LET split_sliced == SplitInvariants(raw_sliced, Literals(raw_sliced),
                                        raw_str, templated_str)
        w == CheckForWrapped(SplitUniquesCoalesceRest(split_sliced, templated_str),
                             templated_str, unwrap_wrapped)
    IN  IF w.templated_str = templated_str \/ loop_idx >= 1
        THEN [raised |-> "", raw_sliced |-> raw_sliced,
              sliced_file |-> w.slices, templated_str |-> w.templated_str,
              split_sliced |-> split_sliced, passes |-> loop_idx + 1]
        ELSE SliceLoop(loop_idx + 1, raw_str, raw_sliced, w.templated_str,
                       unwrap_wrapped)

\* PythonTemplater.slice_file(raw_str, render_func, config); templated_str is
\* render_func(raw_str) and unwrap_wrapped what the config gives.
SliceFile(raw_str, templated_str, unwrap_wrapped) ==
    LET t == SliceTemplate(raw_str)
    IN  IF t.raised # ""
        THEN [raised |-> t.raised, raw_sliced |-> <<>>, sliced_file |-> <<>>,
              templated_str |-> templated_str, split_sliced |-> <<>>,
              passes |-> 0]
        ELSE SliceLoop(0, raw_str, t.slices, templated_str, unwrap_wrapped)

(***************************************************************************)
(* slice_file called on a raw string and what a render function makes of   *)
(* it.                                                                     *)
(***************************************************************************)
MaxRawLen == 4

MaxRenderedLen == 3

RawChars == {"a", "b", "{", "}"}

RawStrings == UNION {[1..n -> RawChars] : n \in 0..MaxRawLen}

RenderedStrings == UNION {[1..n -> {"a", "b"}] : n \in 0..MaxRenderedLen}

InitSf ==
    /\ \E raw_str \in RawStrings, templated_str \in RenderedStrings,
          unwrap_wrapped \in BOOLEAN :
           inp = [raw_str |-> raw_str, templated_str |-> templated_str,
                  unwrap_wrapped |-> unwrap_wrapped]
    /\ CtxIs(InitCtx)
    /\ frames = <<>>
    /\ raising = ""
    /\ last = NoEvent
    /\ pc = "sf_call"
    /\ res = <<>>

\* slice_file from its call to its return or to the exception that leaves
\* it.
SliceFileCall ==
    /\ pc = "sf_call"
    /\ LET r == SliceFile(inp.raw_str, inp.templated_str, inp.unwrap_wrapped)
       IN  /\ res' = r
           /\ raising' = r.raised
    /\ pc' = "sf_done"
    /\ UNCHANGED <<ctxvars, frames, last, inp>>

NextSf == SliceFileCall

SpecSf == InitSf /\ [][NextSf]_vars

(***************************************************************************)
(* IntermediateFileSlice._trim_end and trim_ends.                          *)
(***************************************************************************)
\* in_str[start:stop] for indices of either sign.
StrSlice(in_str, start, stop) ==
    LET n == Len(in_str)
        Clip(i) == IF i < 0 THEN (IF n + i < 0 THEN 0 ELSE n + i)
                   ELSE (IF i > n THEN n ELSE i)
    IN  SubSeq(in_str, Clip(start) + 1, Clip(stop))

\* ("block_start") if target_end == "head" else ("block_end"): a string, not
\* a tuple.
TerminatorTypes(head) == IF head THEN "block_start" ELSE "block_end"

\* slice_type in terminator_types for a string of terminator types: true of
\* the substrings of it, and no slice type but the string itself is one.
InString(slice_type, terminator_types) == slice_type = terminator_types

\* The types the loop of _trim_end goes on at (lines 55-60).
TrimmableTypes == {"literal", "block_start", "block_end", "comment"}

\* len(focus.raw) for a literal and 0 for the items of no length in the
\* templated string (lines 64-69).
TemplatedLen(focus) ==
    IF focus.slice_type \in {"block_start", "block_end", "comment"}
    THEN 0 ELSE Len(focus.raw)

\* A _trim_end that takes every literal for the text at its end.
LiteralMismatchNever(focus, templated_str, main_templated_slice, head) == FALSE

\* templated_str[check_slice] != focus.raw for a literal (lines 70-85): the
\* literal is not the text at the end looked at.
LiteralMismatch(focus, templated_str, main_templated_slice, head) ==
    /\ focus.slice_type \notin {"block_start", "block_end", "comment"}
    /\ LET templated_len == Len(focus.raw)
           check_slice ==
               IF head
               THEN Slice(main_templated_slice.start,
                          main_templated_slice.start + templated_len)
               ELSE Slice(main_templated_slice.stop - templated_len,
                          main_templated_slice.stop)
       IN  StrSlice(templated_str, check_slice.start, check_slice.stop)
               # focus.raw

\* The while loop of _trim_end (lines 55-115).
RECURSIVE TrimLoop(_, _, _, _, _, _)
TrimLoop(templated_str, head, main_source_slice, main_templated_slice, slice_buffer, end_buffer) ==
    LET stopped == [slice |-> IntermediateFileSlice(
                                  "compound", main_source_slice,
                                  main_templated_slice, slice_buffer),
                    end_buffer |-> end_buffer]
    IN  IF slice_buffer = <<>> THEN stopped
        ELSE LET focus == IF head THEN slice_buffer[1] ELSE Last(slice_buffer)
                 templated_len == TemplatedLen(focus)
                 popped == IF head THEN Tail(slice_buffer)
                           ELSE SubSeq(slice_buffer, 1, Len(slice_buffer) - 1)
                 division ==
                     IF head
                     THEN <<main_source_slice.start + Len(focus.raw),
                            main_templated_slice.start + templated_len>>
                     ELSE <<main_source_slice.stop - Len(focus.raw),
                            main_templated_slice.stop - templated_len>>
                 new_slice ==
                     IF head
                     THEN TemplatedFileSlice(
                              focus.slice_type,
                              Slice(main_source_slice.start, division[1]),
                              Slice(main_templated_slice.start, division[2]))
                     ELSE TemplatedFileSlice(
                              focus.slice_type,
                              Slice(division[1], main_source_slice.stop),
                              Slice(division[2], main_templated_slice.stop))
                 source1 == IF head
                            THEN Slice(division[1], main_source_slice.stop)
                            ELSE Slice(main_source_slice.start, division[1])
                 templated1 == IF head
                               THEN Slice(division[2], main_templated_slice.stop)
                               ELSE Slice(main_templated_slice.start, division[2])
                 buffer1 == IF head THEN Append(end_buffer, new_slice)
                            ELSE <<new_slice>> \o end_buffer
             IN  IF focus.slice_type \notin TrimmableTypes THEN stopped
                 ELSE IF LiteralMismatch(focus, templated_str,
                                         main_templated_slice, head)
                 THEN stopped
                 ELSE IF InString(focus.slice_type, TerminatorTypes(head))
                 THEN [slice |-> IntermediateFileSlice(
                                     "compound", source1, templated1, popped),
                       end_buffer |-> buffer1]
                 ELSE TrimLoop(templated_str, head, source1, templated1,
                               popped, buffer1)

\* self._trim_end(templated_str, target_end); head is target_end == "head".
TrimEnd(self, templated_str, head) ==
    TrimLoop(templated_str, head, self.source_slice, self.templated_slice,
             self.slice_buffer, <<>>)

\* self.trim_ends(templated_str)
TrimEnds(self, templated_str) ==
    LET h == TrimEnd(self, templated_str, TRUE)
        t == TrimEnd(h.slice, templated_str, FALSE)
    IN  [head_buffer |-> h.end_buffer, new_slice |-> t.slice,
         tail_buffer |-> t.end_buffer]

(***************************************************************************)
(* trim_ends called on an intermediate slice of a templated string.  The   *)
(* slice buffer is a run of raw slices as _slice_template and the          *)
(* templaters built on it make them, the source slice is the range of the  *)
(* run and the templated slice a range of the templated string.            *)
(***************************************************************************)
MaxBufLen == 3

MaxTrimLen == 3

\* A raw slice of each type, without its source_idx.
TrimKinds ==
    {[raw |-> <<"a">>, slice_type |-> "literal"],
     [raw |-> <<"{", "x", "}">>, slice_type |-> "templated"],
     [raw |-> <<"{", "%", "s">>, slice_type |-> "block_start"],
     [raw |-> <<"{", "%", "e">>, slice_type |-> "block_end"],
     [raw |-> <<"{", "#">>, slice_type |-> "comment"]}

\* The raw slices of the kinds given, laid one after the other from
\* source_idx on.
RECURSIVE LayOut(_, _)
LayOut(kinds, source_idx) ==
    IF kinds = <<>> THEN <<>>
    ELSE <<RawFileSlice(kinds[1].raw, kinds[1].slice_type, source_idx)>>
             \o LayOut(Tail(kinds), source_idx + Len(kinds[1].raw))

TrimBuffers == UNION {[1..n -> TrimKinds] : n \in 0..MaxBufLen}

TrimStrings == UNION {[1..n -> {"a", "b"}] : n \in 0..MaxTrimLen}

InitTrim ==
    /\ \E kinds \in TrimBuffers, templated_str \in TrimStrings,
          source_idx \in {1} :
         \E t0 \in 0..Len(templated_str) :
           \E t1 \in t0..Len(templated_str) :
             LET slice_buffer == LayOut(kinds, source_idx)
             IN  inp = [self |-> IntermediateFileSlice(
                                     "compound",
                                     Slice(source_idx,
                                           source_idx + RawLen(slice_buffer)),
                                     Slice(t0, t1), slice_buffer),
                        templated_str |-> templated_str]
    /\ CtxIs(InitCtx)
    /\ frames = <<>>
    /\ raising = ""
    /\ last = NoEvent
    /\ pc = "trim_call"
    /\ res = <<>>

\* trim_ends from its call to its return.
TrimEndsCall ==
    /\ pc = "trim_call"
    /\ res' = TrimEnds(inp.self, inp.templated_str)
    /\ pc' = "trim_done"
    /\ UNCHANGED <<ctxvars, frames, raising, last, inp>>

NextTrim == TrimEndsCall

SpecTrim == InitTrim /\ [][NextTrim]_vars

(***************************************************************************)
(* PlaceholderTemplater.process with the "colon" style of KNOWN_STYLES:    *)
(* (?<![:\w\x5c]):(?P<param_name>\w+)(?!:) over strings of colons, the     *)
(* word character "n" and blanks.  The pattern has a param_name group and  *)
(* no quotation group.                                                     *)
(***************************************************************************)
WordChars == {"n"}

\* The number of word characters of in_str from the index i on.
RECURSIVE WordRun(_, _)
WordRun(in_str, i) ==
    IF i < Len(in_str) /\ in_str[i + 1] \in WordChars
    THEN 1 + WordRun(in_str, i + 1) ELSE 0

\* The length of param_name in the match of the pattern at the index p, and
\* 0 when there is none: a colon that no colon or word character is before,
\* then the longest run of word characters that no colon follows.
ColonNameLen(in_str, p) ==
    IF /\ p < Len(in_str)
       /\ in_str[p + 1] = ":"
       /\ (p = 0 \/ in_str[p] \notin (WordChars \cup {":"}))
    THEN LET r == WordRun(in_str, p + 1)
         IN  IF p + 1 + r < Len(in_str) /\ in_str[p + 2 + r] = ":"
             THEN (IF r >= 1 THEN r - 1 ELSE 0)
             ELSE r
    ELSE 0

\* regex.finditer(in_str) from the index p on: the matches from left to
\* right, none overlapping another.
RECURSIVE FindIter(_, _)
FindIter(in_str, p) ==
    IF p >= Len(in_str) THEN <<>>
    ELSE LET k == ColonNameLen(in_str, p)
         IN  IF k = 0 THEN FindIter(in_str, p + 1)
             ELSE <<[span |-> <<p, p + 1 + k>>,
                     param_name |-> SubSeq(in_str, p + 2, p + 1 + k)]>>
                      \o FindIter(in_str, p + 1 + k)

\* str(context[param_name]) if param_name in context else param_name
\* (lines 138-141); a context is a set of keys with their values.
Replacement(param_name, context) ==
    IF \E e \in context : e.key = param_name
    THEN (CHOOSE e \in context : e.key = param_name).value
    ELSE param_name

\* TemplatedFile(source_str, templated_str, fname, sliced_file, raw_sliced)
TemplatedFile(source_str, templated_str, sliced_file, raw_sliced) ==
    [source_str |-> source_str, templated_str |-> templated_str,
     sliced_file |-> sliced_file, raw_sliced |-> raw_sliced]

\* The loop of process over the matches (lines 131-184) and what follows it
\* (lines 185-210).
RECURSIVE ProcessLoop(_, _, _, _, _, _, _, _)
ProcessLoop(in_str, context, found, template_slices, raw_slices, last_pos_raw, last_pos_templated, out_str) ==
    IF found = <<>>
    THEN IF Len(in_str) > last_pos_raw
         THEN [template_slices |->
                   Append(template_slices,
                          TemplatedFileSlice(
                              "literal", Slice(last_pos_raw, Len(in_str)),
                              Slice(last_pos_templated,
                                    last_pos_templated
                                        + (Len(in_str) - last_pos_raw)))),
               raw_slices |->
                   Append(raw_slices,
                          RawFileSlice(PySlice(in_str, last_pos_raw, Len(in_str)),
                                       "literal", last_pos_raw)),
               out_str |-> out_str \o PySlice(in_str, last_pos_raw, Len(in_str))]
         ELSE [template_slices |-> template_slices, raw_slices |-> raw_slices,
               out_str |-> out_str]
    ELSE LET span == found[1].span
             last_literal_length == span[2] - last_pos_raw
             replacement == Replacement(found[1].param_name, context)
             start_template_pos == last_pos_templated + last_literal_length
         IN  ProcessLoop(
                 in_str, context, Tail(found),
                 template_slices
                     \o <<TemplatedFileSlice(
                              "literal", Slice(last_pos_raw, span[2]),
                              Slice(last_pos_templated,
                                    last_pos_templated + last_literal_length)),
                          TemplatedFileSlice(
                              "templated", Slice(span[1], span[2]),
                              Slice(start_template_pos,
                                    start_template_pos + Len(replacement)))>>,
                 raw_slices
                     \o <<RawFileSlice(PySlice(in_str, last_pos_raw, span[1]),
                                       "literal", last_pos_raw),
                          RawFileSlice(PySlice(in_str, span[1],
                                               span[1] + Len(replacement)),
                                       "templated", span[1])>>,
                 span[2], start_template_pos + Len(replacement),
                 out_str \o replacement \o PySlice(in_str, last_pos_raw, span[1]))

\* PlaceholderTemplater.process(in_str=in_str, ...) for the context that
\* get_context gives: the templated file and the list of errors.
Process(in_str, context) ==
    LET r == ProcessLoop(in_str, context, FindIter(in_str, 0), <<>>, <<>>, 0,
                         0, <<>>)
    IN  [file |-> TemplatedFile(r.out_str, in_str, r.raw_slices,
                                r.template_slices),
         errors |-> <<"error">>]

(***************************************************************************)
(* process called on a string and a context.                               *)
(***************************************************************************)
MaxPhLen == 5

PhChars == {":", "n", " "}

PhStrings == UNION {[1..n -> PhChars] : n \in 0..MaxPhLen}

\* No value for n, a value as long as the placeholder, a shorter one and a
\* longer one.
PhContexts ==
    {{}, {[key |-> <<"n">>, value |-> <<"5", "5">>]},
     {[key |-> <<"n">>, value |-> <<"5">>]},
     {[key |-> <<"n">>, value |-> <<"5", "5", "5">>]}}

InitPh ==
    /\ \E in_str \in PhStrings, context \in PhContexts :
           inp = [in_str |-> in_str, context |-> context]
    /\ CtxIs(InitCtx)
    /\ frames = <<>>
    /\ raising = ""
    /\ last = NoEvent
    /\ pc = "ph_call"
    /\ res = <<>>

\* process from its call to its return.
ProcessCall ==
    /\ pc = "ph_call"
    /\ res' = Process(inp.in_str, inp.context)
    /\ pc' = "ph_done"
    /\ UNCHANGED <<ctxvars, frames, raising, last, inp>>

NextPh == ProcessCall

SpecPh == InitPh /\ [][NextPh]_vars

(***************************************************************************)
(* Patch generation (linter/patch.py).  A segment is the record of its     *)
(* type, its raw, its position marker, its child segments and its source   *)
(* fixes; the raw and the source fixes of a segment with children are      *)
(* those of its children, one after the other.                             *)
(***************************************************************************)
PositionMarker(source_slice, templated_slice) ==
    [source_slice |-> source_slice, templated_slice |-> templated_slice]

SourceFix(edit, source_slice, templated_slice) ==
    [edit |-> edit, source_slice |-> source_slice,
     templated_slice |-> templated_slice]

Segment(seg_type, raw, pos_marker, segments, source_fixes) ==
    [seg_type |-> seg_type, raw |-> raw, pos_marker |-> pos_marker,
     segments |-> segments, source_fixes |-> source_fixes]

FixPatch(templated_slice, fixed_raw, patch_category, source_slice, templated_str, source_str) ==
    [templated_slice |-> templated_slice, fixed_raw |-> fixed_raw,
     patch_category |-> patch_category, source_slice |-> source_slice,
     templated_str |-> templated_str, source_str |-> source_str]

\* patch.dedupe_tuple()
DedupeTuple(patch) == <<patch.source_slice, patch.fixed_raw>>

\* pos_marker.is_point(): no width in the source and none in the templated
\* string.
IsPoint(pos_marker) ==
    /\ pos_marker.source_slice.start = pos_marker.source_slice.stop
    /\ pos_marker.templated_slice.start = pos_marker.templated_slice.stop

\* templated_file.raw_slices_spanning_source_slice(source_slice): the raw
\* slices from the one that holds the start of the slice to the last one
\* that begins before its stop, and none for a slice at or after the end of
\* the last raw slice.
RawSlicesSpanning(raw_sliced, source_slice) ==
    IF raw_sliced = <<>> THEN <<>>
    ELSE IF source_slice.start
                >= Last(raw_sliced).source_idx + Len(Last(raw_sliced).raw)
    THEN <<>>
    ELSE LET n == Len(raw_sliced)
             Holds(k) == \/ k = 1
                         \/ raw_sliced[k].source_idx <= source_slice.start
             first == CHOOSE k \in 1..n :
                          /\ Holds(k)
                          /\ \A j \in (k + 1)..n : ~Holds(j)
             Begins(k) == \/ k = first
                          \/ raw_sliced[k].source_idx < source_slice.stop
             last_one == CHOOSE k \in first..n :
                             /\ \A j \in first..k : Begins(j)
                             /\ (k = n \/ ~Begins(k + 1))
         IN  SubSeq(raw_sliced, first, last_one)

\* pos_marker.is_literal(): the source slice has no width or lies in literal
\* raw slices only.
IsLiteral(pos_marker, templated_file) ==
    \/ pos_marker.source_slice.start = pos_marker.source_slice.stop
    \/ LET spanned == RawSlicesSpanning(templated_file.raw_sliced,
                                        pos_marker.source_slice)
       IN  \A k \in 1..Len(spanned) : spanned[k].slice_type = "literal"

\* _iter_source_fix_patches(segment, templated_file) from the source fixes
\* still to go, which it takes from the last to the first.
RECURSIVE IterSourceFixPatches(_, _)
IterSourceFixPatches(source_fixes, templated_file) ==
    IF source_fixes = <<>> THEN <<>>
    ELSE LET source_fix == Last(source_fixes)
         IN  <<FixPatch(source_fix.templated_slice, source_fix.edit,
                        "templated", source_fix.source_slice,
                        StrSlice(templated_file.templated_str,
                                 source_fix.source_slice.start,
                                 source_fix.source_slice.stop),
                        StrSlice(templated_file.source_str,
                                 source_fix.templated_slice.start,
                                 source_fix.templated_slice.stop))>>
                 \o IterSourceFixPatches(Front(source_fixes), templated_file)

\* The segments without the end_of_file and indent segments at their end
\* (lines 100-101).
RECURSIVE StripTrailing(_)
StripTrailing(segments) ==
    IF segments # <<>> /\ Last(segments).seg_type \in {"end_of_file", "indent"}
    THEN StripTrailing(Front(segments)) ELSE segments

\* first_segment_pos is the empty tuple for None and the tuple of the
\* position marker otherwise.
NoPos == <<>>

\* _iter_templated_patches(segment, templated_file), and the loop of it over
\* the child segments (lines 106-164).
RECURSIVE IterTemplatedPatches(_, _)
RECURSIVE ChildLoop(_, _, _, _, _, _, _)
ChildLoop(segment, segments, templated_file, source_idx, templated_idx, insert_buff, first_segment_pos) ==
    IF segments = <<>>
    THEN LET end_diff == segment.pos_marker.templated_slice.stop - templated_idx
             source_slice == Slice(source_idx + 1,
                                   segment.pos_marker.source_slice.stop)
             templated_slice == Slice(templated_idx,
                                      segment.pos_marker.templated_slice.stop)
         IN  IF end_diff # 0 \/ insert_buff # <<>>
             THEN <<FixPatch(templated_slice, insert_buff, "end_marker",
                             source_slice,
                             StrSlice(templated_file.source_str,
                                      templated_slice.start,
                                      templated_slice.stop),
                             StrSlice(templated_file.templated_str,
                                      source_slice.start, source_slice.stop))>>
             ELSE <<>>
    ELSE LET seg == segments[1] IN
         IF seg.raw # <<>> /\ IsPoint(seg.pos_marker)
         THEN ChildLoop(segment, Tail(segments), templated_file, source_idx,
                        templated_idx, insert_buff \o seg.raw,
                        <<seg.pos_marker>>)
         ELSE LET start_diff == seg.pos_marker.templated_slice.start
                                    - templated_idx
                  bridged == start_diff > 1 \/ insert_buff # <<>>
                  fsp == IF first_segment_pos # NoPos
                         THEN first_segment_pos[1] ELSE seg.pos_marker
                  patch == FixPatch(Slice(templated_idx,
                                          fsp.templated_slice.stop),
                                    insert_buff, "discontinuity",
                                    Slice(source_idx, fsp.source_slice.start),
                                    <<>>, <<>>)
              IN  (IF bridged THEN <<patch>> ELSE <<>>)
                      \o IterTemplatedPatches(seg, templated_file)
                      \o ChildLoop(segment, Tail(segments), templated_file,
                                   seg.pos_marker.source_slice.stop,
                                   seg.pos_marker.templated_slice.stop,
                                   IF bridged THEN <<>> ELSE insert_buff,
                                   IF bridged THEN NoPos ELSE first_segment_pos)

IterTemplatedPatches(segment, templated_file) ==
    LET templated_raw == StrSlice(templated_file.templated_str,
                                  segment.pos_marker.templated_slice.start,
                                  segment.pos_marker.templated_slice.stop)
        matches == segment.raw # templated_raw
    IN  IF matches
        THEN IterSourceFixPatches(segment.source_fixes, templated_file)
        ELSE IF IsLiteral(segment.pos_marker, templated_file)
        THEN IterSourceFixPatches(segment.source_fixes, templated_file)
                 \o <<FixPatch(segment.pos_marker.templated_slice, segment.raw,
                               "non_literal", segment.pos_marker.source_slice,
                               StrSlice(templated_file.templated_str,
                                        segment.pos_marker.templated_slice.start,
                                        segment.pos_marker.templated_slice.stop),
                               StrSlice(templated_file.source_str,
                                        segment.pos_marker.source_slice.start,
                                        segment.pos_marker.source_slice.stop))>>
        ELSE IF segment.segments # <<>>
        THEN ChildLoop(segment, StripTrailing(segment.segments), templated_file,
                       segment.pos_marker.source_slice.stop,
                       segment.pos_marker.templated_slice.start, <<" ">>, NoPos)
        ELSE <<>>

\* A generate_source_patches that keeps the patches it has seen before.
IsDuplicateNever(patch, dedupe_buffer) == FALSE

\* patch.dedupe_tuple() in dedupe_buffer (line 216)
IsDuplicate(patch, dedupe_buffer) == InSeq(DedupeTuple(patch), dedupe_buffer)

\* What generate_source_patches does with a patch that is no duplicate
\* (lines 228-261): "literal", "source" and "boundary" keep it, "warning"
\* drops it with a warning logged.
PatchVerdict(patch, templated_file) ==
    LET local_raw_slices == RawSlicesSpanning(templated_file.raw_sliced,
                                              patch.source_slice)
        local_type_list == {local_raw_slices[k].slice_type :
                                k \in 1..Len(local_raw_slices)}
    IN  IF local_raw_slices = <<>> \/ local_type_list = {"literal"}
        THEN "literal"
        ELSE IF patch.patch_category = "source" THEN "source"
        ELSE IF /\ patch.source_slice.start = patch.source_slice.stop
                /\ patch.source_slice.start = local_raw_slices[1].source_idx
        THEN "boundary"
        ELSE "warning"

\* The loop of generate_source_patches over the patches (lines 206-261); log
\* is what became of each patch.
RECURSIVE FilterPatches(_, _, _, _, _)
FilterPatches(patches, templated_file, filtered_source_patches, dedupe_buffer, log) ==
    IF patches = <<>>
    THEN [filtered |-> filtered_source_patches, log |-> log]
    ELSE LET patch == patches[1]
             verdict == IF IsDuplicate(patch, dedupe_buffer) THEN "duplicate"
                        ELSE PatchVerdict(patch, templated_file)
             kept == verdict \in {"literal", "source", "boundary"}
         IN  FilterPatches(
                 Tail(patches), templated_file,
                 IF kept THEN Append(filtered_source_patches, patch)
                 ELSE filtered_source_patches,
                 IF kept THEN Append(dedupe_buffer, DedupeTuple(patch))
                 ELSE dedupe_buffer,
                 Append(log, verdict))

\* sorted(filtered_source_patches, key=lambda x: x.source_slice.start): each
\* patch goes behind the patches that do not start after it.
RECURSIVE SortedByStart(_)
SortedByStart(patches) ==
    IF patches = <<>> THEN <<>>
    ELSE LET sorted == SortedByStart(Front(patches))
             patch == Last(patches)
             Before(q) == q.source_slice.start <= patch.source_slice.start
             After(q) == ~Before(q)
         IN  SelectSeq(sorted, Before) \o <<patch>> \o SelectSeq(sorted, After)

\* generate_source_patches(tree, templated_file)
GenerateSourcePatches(tree, templated_file) ==
    LET generated == IterTemplatedPatches(tree, templated_file)
        r == FilterPatches(generated, templated_file, <<>>, <<>>, <<>>)
    IN  [patches |-> SortedByStart(r.filtered), generated |-> generated,
         filtered |-> r.filtered, log |-> r.log]

(***************************************************************************)
(* Patches generated for a fixed tree over a templated file.  The file is  *)
(* a run of raw slices, a literal "a" that renders as itself or a          *)
(* placeholder "{}" that renders as "x".  The tree is a file segment with  *)
(* a leaf for every slice of the file, which the fix has left as it was,   *)
(* changed to "z" or taken away, with segments of no width that the fix    *)
(* has put before a leaf or at the end, and with a source fix for the last *)
(* slice of the file attached to some of the leaves.  Every segment has a  *)
(* position marker.                                                        *)
(***************************************************************************)
MaxPatchSlices == 2

PatchKinds ==
    {[raw |-> <<"a">>, slice_type |-> "literal", rendered |-> <<"a">>],
     [raw |-> <<"{", "}">>, slice_type |-> "templated", rendered |-> <<"x">>]}

PatchFiles == UNION {[1..n -> PatchKinds] : n \in 1..MaxPatchSlices}

\* What the fix has made of the leaf of a slice.
LeafFates ==
    [state : {"same", "changed", "gone"}, fix : BOOLEAN, ins : BOOLEAN]

\* The width of the first k slices in the source and in the templated
\* string.
RECURSIVE SourceWidth(_, _)
SourceWidth(kinds, k) ==
    IF k = 0 THEN 0 ELSE SourceWidth(kinds, k - 1) + Len(kinds[k].raw)

RECURSIVE TemplatedWidth(_, _)
TemplatedWidth(kinds, k) ==
    IF k = 0 THEN 0 ELSE TemplatedWidth(kinds, k - 1) + Len(kinds[k].rendered)

\* The position marker of the k-th slice and the one of the point before it.
SlicePos(kinds, k) ==
    PositionMarker(Slice(SourceWidth(kinds, k - 1), SourceWidth(kinds, k)),
                   Slice(TemplatedWidth(kinds, k - 1), TemplatedWidth(kinds, k)))

PointPos(kinds, k) ==
    PositionMarker(Slice(SourceWidth(kinds, k - 1), SourceWidth(kinds, k - 1)),
                   Slice(TemplatedWidth(kinds, k - 1),
                         TemplatedWidth(kinds, k - 1)))

\* The templated file of the slices.
RECURSIVE FileSlices(_, _)
FileSlices(kinds, k) ==
    IF k > Len(kinds) THEN <<>>
    ELSE <<TemplatedFileSlice(kinds[k].slice_type,
                              SlicePos(kinds, k).source_slice,
                              SlicePos(kinds, k).templated_slice)>>
             \o FileSlices(kinds, k + 1)

RECURSIVE Rendered(_)
Rendered(kinds) ==
    IF kinds = <<>> THEN <<>> ELSE kinds[1].rendered \o Rendered(Tail(kinds))

\* The raws of the slices or segments, one after the other.
RECURSIVE RawOf(_)
RawOf(parts) ==
    IF parts = <<>> THEN <<>> ELSE parts[1].raw \o RawOf(Tail(parts))

PatchFile(kinds) ==
    TemplatedFile(RawOf(kinds), Rendered(kinds), FileSlices(kinds, 1),
                  LayOut(kinds, 0))

\* The source fix for the last slice of the file.
LastSliceFix(kinds) ==
    SourceFix(<<"e">>, SlicePos(kinds, Len(kinds)).source_slice,
              SlicePos(kinds, Len(kinds)).templated_slice)

\* The child segments of the tree from the k-th slice on.
RECURSIVE Children(_, _, _, _, _)
Children(kinds, fates, k, ins_end, eof) ==
    IF k > Len(kinds)
    THEN (IF ins_end
          THEN <<Segment("raw", <<"i">>, PointPos(kinds, k), <<>>, <<>>)>>
          ELSE <<>>)
             \o (IF eof
                 THEN <<Segment("end_of_file", <<>>, PointPos(kinds, k), <<>>,
                                <<>>)>>
                 ELSE <<>>)
    ELSE (IF fates[k].ins
          THEN <<Segment("raw", <<"i">>, PointPos(kinds, k), <<>>, <<>>)>>
          ELSE <<>>)
             \o (IF fates[k].state = "gone" THEN <<>>
                 ELSE <<Segment("raw",
                                IF fates[k].state = "same"
                                THEN kinds[k].rendered ELSE <<"z">>,
                                SlicePos(kinds, k), <<>>,
                                IF fates[k].fix THEN <<LastSliceFix(kinds)>>
                                ELSE <<>>)>>)
             \o Children(kinds, fates, k + 1, ins_end, eof)

\* The source fixes of the segments, one after the other.
RECURSIVE SourceFixesOf(_)
SourceFixesOf(segments) ==
    IF segments = <<>> THEN <<>>
    ELSE segments[1].source_fixes \o SourceFixesOf(Tail(segments))

PatchTree(kinds, fates, ins_end, eof) ==
    LET segments == Children(kinds, fates, 1, ins_end, eof)
    IN  Segment("file", RawOf(segments),
                PositionMarker(Slice(0, SourceWidth(kinds, Len(kinds))),
                               Slice(0, TemplatedWidth(kinds, Len(kinds)))),
                segments, SourceFixesOf(segments))

InitPatch ==
    /\ \E kinds \in PatchFiles, ins_end \in BOOLEAN, eof \in BOOLEAN :
         \E fates \in [1..Len(kinds) -> LeafFates] :
           inp = [tree |-> PatchTree(kinds, fates, ins_end, eof),
                  templated_file |-> PatchFile(kinds)]
    /\ CtxIs(InitCtx)
    /\ frames = <<>>
    /\ raising = ""
    /\ last = NoEvent
    /\ pc \in {"iter_call", "gen_call"}
    /\ res = <<>>

\* list(_iter_templated_patches(tree, templated_file))
IterTemplatedPatchesCall ==
    /\ pc = "iter_call"
    /\ res' = [generated |-> IterTemplatedPatches(inp.tree, inp.templated_file)]
    /\ pc' = "iter_done"
    /\ UNCHANGED <<ctxvars, frames, raising, last, inp>>

\* generate_source_patches from its call to its return.
GenerateSourcePatchesCall ==
    /\ pc = "gen_call"
    /\ res' = GenerateSourcePatches(inp.tree, inp.templated_file)
    /\ pc' = "gen_done"
    /\ UNCHANGED <<ctxvars, frames, raising, last, inp>>

NextPatch == IterTemplatedPatchesCall \/ GenerateSourcePatchesCall

SpecPatch == InitPatch /\ [][NextPatch]_vars

(***************************************************************************)
(* The parse cache of ParseContext: a defaultdict whose factory gives      *)
(* "default", one for each context made by __init__ (context.py:80).  A    *)
(* dict is the function from its keys to their values.                     *)
(***************************************************************************)
EmptyDict == [k \in {} |-> NoneValue]

\* d[key] = value
DictSet(d, key, value) ==
    [k \in DOMAIN d \cup {key} |-> IF k = key THEN value ELSE d[k]]

\* A cache read by d[key]: the factory of the defaultdict fills a key that
\* is missing.
DictIndex(d, key) ==
    IF key \in DOMAIN d THEN [value |-> d[key], dict |-> d]
    ELSE [value |-> [kind |-> "default"],
          dict |-> DictSet(d, key, [kind |-> "default"])]

\* d.get(key): the value and the dict afterwards; get does not call the
\* factory of a defaultdict.
DictGet(d, key) ==
    [value |-> IF key \in DOMAIN d THEN d[key] ELSE NoneValue, dict |-> d]

\* self.check_parse_cache(loc_key, matcher_key)
CheckParseCache(parse_cache, loc_key, matcher_key) ==
    DictGet(parse_cache, <<loc_key, matcher_key>>)

\* self.put_parse_cache(loc_key, matcher_key, match)
PutParseCache(parse_cache, loc_key, matcher_key, match) ==
    DictSet(parse_cache, <<loc_key, matcher_key>>, match)

(***************************************************************************)
(* Two parse contexts and the calls of check_parse_cache and               *)
(* put_parse_cache on them, in any order.  res holds the caches, what was  *)
(* last put for each key of each context, the number of puts and what the  *)
(* last call returned; inp is the last call.                               *)
(***************************************************************************)
MaxPuts == 3

CacheContexts == {1, 2}

LocKeys == {0, 1}

MatcherKeys == {"A", "B"}

CacheMatches == {[kind |-> "m1"], [kind |-> "m2"]}

InitCache ==
    /\ inp = [op |-> "init"]
    /\ res = [parse_cache |-> [c \in CacheContexts |-> EmptyDict],
              stored |-> [c \in CacheContexts |->
                              [k \in LocKeys \X MatcherKeys |-> NoneValue]],
              puts |-> 0, returned |-> NoneValue]
    /\ CtxIs(InitCtx)
    /\ frames = <<>>
    /\ raising = ""
    /\ last = NoEvent
    /\ pc = "cache"

CheckParseCacheCall ==
    /\ pc = "cache"
    /\ \E c \in CacheContexts, loc_key \in LocKeys, matcher_key \in MatcherKeys :
           LET r == CheckParseCache(res.parse_cache[c], loc_key, matcher_key)
           IN  /\ inp' = [op |-> "check", context |-> c, loc_key |-> loc_key,
                          matcher_key |-> matcher_key]
               /\ res' = [res EXCEPT !.parse_cache[c] = r.dict,
                                     !.returned = r.value]
    /\ UNCHANGED <<ctxvars, frames, raising, last, pc>>

PutParseCacheCall ==
    /\ pc = "cache"
    /\ res.puts < MaxPuts
    /\ \E c \in CacheContexts, loc_key \in LocKeys, matcher_key \in MatcherKeys,
          match \in CacheMatches :
           /\ inp' = [op |-> "put", context |-> c, loc_key |-> loc_key,
                      matcher_key |-> matcher_key, match |-> match]
           /\ res' = [res EXCEPT
                          !.parse_cache[c] =
                              PutParseCache(@, loc_key, matcher_key, match),
                          !.stored[c][<<loc_key, matcher_key>>] = match,
                          !.puts = @ + 1,
                          !.returned = NoneValue]
    /\ UNCHANGED <<ctxvars, frames, raising, last, pc>>

NextCache == CheckParseCacheCall \/ PutParseCacheCall

SpecCache == InitCache /\ [][NextCache]_vars

(***************************************************************************)
(* Properties of the context's scopes.                                     *)
(***************************************************************************)

C2_ClearedScopeHoldsOnlyPush ==
    (frames # <<>> /\ Last(frames).loc.clear_terminators)
        => terminators = Last(frames).push

\* C3: inside a scope entered with clear_terminators=False the active
\* terminators are the inherited ones, in order, followed by the pushed ones
\* that were not yet present, each once; on exit what was appended is removed
\* from the end.
C3_DefaultScopeAppendsNew ==
    /\ (frames # <<>> /\ ~Last(frames).loc.clear_terminators)
           => terminators = AppendNew(Last(frames).before.terminators,
                                      Last(frames).push)
    /\ (last.ev = "exit" /\ ~last.clear_terminators)
           => /\ last.inside.terminators
                    = AppendNew(last.before.terminators, last.push)
              /\ terminators = last.before.terminators

(***************************************************************************)
(* Properties of Sequence.match.                                           *)
(***************************************************************************)
SeqDone == pc = "seq_done"

SeqReturned == SeqDone /\ res.raised = ""

CodeIn(segments, from, to) ==
    {i \in from..(to - 1) : i < Len(segments) /\ IsCode(segments[i + 1])}

\* The children of a match that are unparsable.
Unparsables(m) == {k \in 1..Len(m.kids) : m.kids[k].cls = "unparsable"}

SetMin(S) == CHOOSE x \in S : \A y \in S : x <= y

SetMax(S) == CHOOSE x \in S : \A y \in S : x >= y

\* The first index at or after idx where a terminator of the grammar or of
\* the context matches, the end of the input when there is none.
Boundary ==
    LET terms == inp.grammar.terminators \o terminators
        hits == {i \in inp.idx..(Len(inp.segments) - 1) :
                     InSeq(inp.segments[i + 1], terms)}
    IN  IF hits = {} THEN Len(inp.segments) ELSE SetMin(hits)

\* C5: in GREEDY mode max_idx is the first position at or after the start
\* index where one of the grammar's or the context's terminators matches (the
\* end of the input when none does), no element is matched at or beyond
\* max_idx, and when every element has matched or been skipped the code
\* tokens left between the last matched element and max_idx are one
\* unparsable child of the result.
C5_GreedyBoundaryAndLeftover ==
    (SeqReturned /\ inp.grammar.mode = "GREEDY")
        => /\ res.gh.max_idx = Boundary
           /\ \A k \in 1..Len(res.gh.attempts) :
                  /\ res.gh.attempts[k].at < res.gh.max_idx
                  /\ res.gh.attempts[k].limit <= res.gh.max_idx
           /\ LET left == CodeIn(inp.segments, res.gh.last_stop, res.gh.max_idx)
              IN  (res.gh.failed = 0 /\ left # {})
                      => \E k \in Unparsables(res.m) :
                             /\ Unparsables(res.m) = {k}
                             /\ res.m.kids[k].start = SetMin(left)
                             /\ res.m.kids[k].stop = SetMax(left) + 1

\* C6: in GREEDY or GREEDY_ONCE_STARTED mode, when a non-optional element is
\* tried and does not match after an earlier element matched, the result is a
\* non-empty match that starts at the start index, keeps the children matched
\* so far and ends with one unparsable child that runs from the first code
\* token after the last matched element to max_idx.
C6_PartialMatchKeepsChildren ==
    (/\ SeqDone
     /\ inp.grammar.mode \in {"GREEDY", "GREEDY_ONCE_STARTED"}
     /\ res.gh.failed # 0
     /\ res.gh.nmatched > 0
     /\ res.gh.path \in {"partial", "raised"})
        => /\ res.raised = ""
           /\ res.m.start = inp.idx
           /\ res.m.stop > res.m.start
           /\ Len(res.m.kids) = res.gh.nmatched + 1
           /\ \A k \in 1..res.gh.nmatched : res.m.kids[k].cls = "keyword"
           /\ LET u == res.m.kids[Len(res.m.kids)]
              IN  /\ u.cls = "unparsable"
                  /\ u.start = SkipForward(inp.segments, res.gh.last_stop,
                                           res.gh.max_idx)
                  /\ u.stop = res.gh.max_idx

(***************************************************************************)
(* Properties of Bracketed.match.                                          *)
(***************************************************************************)
BrDone == pc = "br_done"

BrReturned == BrDone /\ res.raised = ""

\* The opening bracket is the token at the index given.
StartBracketAt == Truthy(LeafMatch(StartBracket, inp.segments, inp.idx))

\* The index of the closing bracket that pairs with the opening bracket at the
\* index given, nested pairs counted by depth; -1 when the input ends first.
ClosingIndex ==
    ScanBrackets(inp.segments, inp.idx + 1, 1, <<StartBracket>>, <<EndBracket>>)

\* C7: Bracketed.match returns an empty match at the index given when the
\* start bracket does not match there; when it matches and is closed, a match
\* that is returned runs from the opening bracket through the closing bracket
\* that pairs with it by depth, and a pair with nothing between its brackets
\* and no element to match is such a match.
C7_MatchSpansBracketPair ==
    BrDone =>
        /\ ~StartBracketAt => (res.raised = "" /\ res.m = EmptyAt(inp.idx))
        /\ (StartBracketAt /\ ClosingIndex >= 0)
               => /\ res.raised = ""
                  /\ \/ res.m = EmptyAt(inp.idx)
                     \/ (res.m.start = inp.idx /\ res.m.stop = ClosingIndex + 1)
        /\ (StartBracketAt /\ ClosingIndex = inp.idx + 1
                /\ inp.grammar.elements = <<>>)
               => (res.m.start = inp.idx /\ res.m.stop = ClosingIndex + 1)

\* C8: when the opening bracket matches and the input ends before the bracket
\* that closes it, Bracketed.match raises the fatal parse error and returns
\* no match, empty or partial.
C8_UnclosedBracketIsFatal ==
    (BrDone /\ StartBracketAt /\ ClosingIndex < 0)
        => res.raised = "SQLParseError"

BrUnparsables(m) ==
    {<<m.kids[k].start, m.kids[k].stop>> :
         k \in {j \in 1..Len(m.kids) : m.kids[j].cls = "unparsable"}}
    \cup UNION {
           {<<m.kids[k].kids[j].start, m.kids[k].kids[j].stop>> :
                j \in {i \in 1..Len(m.kids[k].kids) :
                           m.kids[k].kids[i].cls = "unparsable"}} :
           k \in {j \in 1..Len(m.kids) : m.kids[j].cls = ""}}

\* C10: a match returned by Bracketed.match has no unparsable child for the
\* gap when allow_gaps is true; when it is false the tokens between the end of
\* the content match and the closing bracket are one unparsable child if
\* there are any, and there is no such child if there are none.
C10_GapsPermittedOrUnparsable ==
    (BrReturned /\ res.gh.path = "matched")
        => IF inp.grammar.allow_gaps
           THEN BrUnparsables(res.m) = {}
           ELSE IF res.gh.content_stop < res.gh.close
           THEN BrUnparsables(res.m) = {<<res.gh.content_stop, res.gh.close>>}
           ELSE BrUnparsables(res.m) = {}

(***************************************************************************)
(* Properties of Delimited.match.                                          *)
(***************************************************************************)
DelDone == pc = "del_done"

\* The input is content, the delimiter and content again, with nothing else,
\* matched from its first token.
ContentDelimiterContent ==
    /\ inp.segments = <<"A", inp.grammar.delimiter, "A">>
    /\ inp.idx = 0

\* C11: Delimited.match returns an empty match at the start index when it
\* matched fewer delimiters than min_delimiters and a match otherwise: with
\* min_delimiters=1 the input "a" gives no match and "a,b" gives a match.
C11_MinDelimitersDecidesMatch ==
    DelDone =>
        /\ res.raised = ""
        /\ res.gh.delimiters < inp.grammar.min_delimiters
               => res.m = EmptyAt(inp.idx)
        /\ (inp.segments = <<"A">> /\ inp.idx = 0
                /\ inp.grammar.min_delimiters = 1)
               => res.m = EmptyAt(0)
        /\ ContentDelimiterContent
               => (res.m.start = 0 /\ res.m.stop = 3)

\* C12: Delimited.match seeks content first and then a delimiter and content
\* in turn; a delimiter with no content after it is left out of the match
\* returned unless allow_trailing is set, and is its last token when it is.
C12_TrailingDelimiter ==
    (DelDone /\ inp.segments = <<"A", inp.grammar.delimiter>> /\ inp.idx = 0
        /\ inp.grammar.min_delimiters = 0)
        => /\ res.raised = ""
           /\ res.m.start = 0
           /\ res.m.stop = IF inp.grammar.allow_trailing THEN 2 ELSE 1

\* C13: the terminators Delimited.match stops at are the grammar's own
\* followed by the inherited ones that are not the delimiter, so that a
\* delimiter that is an inherited terminator is matched as a delimiter and
\* the content after it is matched too.
C13_DelimiterIsNoTerminator ==
    DelDone =>
        /\ \A t \in DelToks :
               InSeq(t, res.gh.terminator_matchers)
                   <=> \/ InSeq(t, inp.grammar.terminators)
                       \/ (InSeq(t, inp.outer) /\ t # inp.grammar.delimiter)
        /\ (ContentDelimiterContent /\ InSeq(inp.grammar.delimiter, inp.outer)
                /\ ~InSeq("A", res.gh.terminator_matchers))
               => (res.raised = "" /\ res.m.start = 0 /\ res.m.stop = 3)

(***************************************************************************)
(* Properties of NonCodeMatcher.match.                                     *)
(***************************************************************************)
\* The index just after the run of non-code tokens that begins at index i.
RECURSIVE NonCodeRunEnd(_, _)
NonCodeRunEnd(segments, i) ==
    IF i >= Len(segments) \/ IsCode(segments[i + 1]) THEN i
    ELSE NonCodeRunEnd(segments, i + 1)

\* C14: NonCodeMatcher.match at idx returns a match that starts at idx and
\* ends just before the first code token at or after idx; it is the empty
\* match at idx when the token at idx is code.
C14_NonCodeRunFromIndex ==
    pc = "nc_done"
        => /\ res.raised = ""
           /\ res.m.start = inp.idx
           /\ res.m.stop = NonCodeRunEnd(inp.segments, inp.idx)
           /\ (inp.idx < Len(inp.segments) /\ IsCode(inp.segments[inp.idx + 1]))
                  => res.m = EmptyAt(inp.idx)

(***************************************************************************)
(* Properties of root_parse and Parser.parse.                              *)
(***************************************************************************)
FileDone == pc \in {"root_done", "parse_done"}

RootDone == pc = "root_done"

\* The indices of the code tokens of the input.
CodeIndices == {i \in 0..(Len(inp.segments) - 1) : IsCode(inp.segments[i + 1])}

\* The span of the input from its first code token to just after its last.
SpanStart == SetMin(CodeIndices)

SpanStop == SetMax(CodeIndices) + 1

\* The match of the root grammar on that span.
SpanMatch ==
    LeafMatch(inp.root, PySlice(inp.segments, 0, SpanStop), SpanStart)

\* C15: parsing returns a file segment that holds every token of the input
\* once and in its place, so that the raw text of its leaves, in order, is
\* the raw text of the input.
C15_FileHoldsEveryTokenOnce ==
    FileDone
        => /\ res.raised = ""
           /\ res.value.kind = "file"
           /\ LeafRaws(res.value.nodes) = inp.segments

\* C16: when the root grammar matches and leaves tokens of the span
\* unconsumed, the file segment is the leading non-code, the matched content,
\* the unconsumed non-code before the first unconsumed code token, one
\* unparsable segment over the tokens from that one to the end of the span,
\* and the trailing non-code.
C16_UnconsumedBecomesUnparsable ==
    (RootDone /\ CodeIndices # {} /\ Truthy(SpanMatch)
        /\ SpanMatch.stop < SpanStop)
        => LET toks == TokensOf(inp.segments)
               first == SetMin({i \in CodeIndices : i >= SpanMatch.stop})
           IN  /\ res.raised = ""
               /\ res.value
                      = FileSegment(
                            RawNodes(PySlice(toks, 0, SpanStart))
                                \o Apply(SpanMatch, toks)
                                \o RawNodes(PySlice(toks, SpanMatch.stop, first))
                                \o <<UnparsableNode(PySlice(toks, first, SpanStop))>>
                                \o RawNodes(PySlice(toks, SpanStop, Len(toks))))

\* C17: root_parse gives the root grammar the tokens up to the end of the
\* span, to match from the start of the span; when the grammar does not match
\* the file segment is the leading non-code, one unparsable segment over the
\* span and the trailing non-code; when the input has no code token the
\* grammar is not invoked and the file segment holds the tokens as they are.
C17_GrammarGetsCodeSpan ==
    RootDone =>
        LET toks == TokensOf(inp.segments)
        IN  IF CodeIndices # {}
            THEN /\ res.gh.invoked
                 /\ res.gh.given = PySlice(inp.segments, 0, SpanStop)
                 /\ res.gh.at = SpanStart
                 /\ ~Truthy(SpanMatch)
                        => /\ res.raised = ""
                           /\ res.value
                                  = FileSegment(
                                        RawNodes(PySlice(toks, 0, SpanStart))
                                            \o <<UnparsableNode(
                                                     PySlice(toks, SpanStart, SpanStop))>>
                                            \o RawNodes(PySlice(toks, SpanStop,
                                                                Len(toks))))
            ELSE /\ ~res.gh.invoked
                 /\ res.raised = ""
                 /\ res.value = FileSegment(RawNodes(toks))

(***************************************************************************)
(* Properties of PythonTemplater._slice_template.                          *)
(***************************************************************************)
\* The raw text of the slices, in order.
RECURSIVE ConcatRaw(_)
ConcatRaw(slices) ==
    IF slices = <<>> THEN <<>> ELSE slices[1].raw \o ConcatRaw(Tail(slices))

\* C18: the raw file slices of a template string, concatenated in order, are
\* the string, and the source_idx of each is the length of the ones before
\* it.
C18_RawSlicesTileSource ==
    (pc = "tpl_done" /\ res.raised = "")
        => /\ ConcatRaw(res.slices) = inp.in_str
           /\ \A k \in 1..Len(res.slices) :
                  res.slices[k].source_idx
                      = Len(ConcatRaw(SubSeq(res.slices, 1, k - 1)))

(***************************************************************************)
(* Properties of PythonTemplater.slice_file.                               *)
(***************************************************************************)
\* C19: the templated file slices that slice_file returns are contiguous in
\* the source and in the templated string, their templated slices run from 0
\* to the length of the templated string returned and their source slices
\* from 0 to the length of the raw string.
C19_SlicesTileBothStrings ==
    (pc = "sf_done" /\ res.raised = "")
        => LET f == res.sliced_file
               n == Len(f)
           IN  /\ \A k \in 2..n :
                      /\ f[k].source_slice.start = f[k - 1].source_slice.stop
                      /\ f[k].templated_slice.start = f[k - 1].templated_slice.stop
               /\ (IF n = 0 THEN 0 ELSE f[1].templated_slice.start) = 0
               /\ (IF n = 0 THEN 0 ELSE f[n].templated_slice.stop)
                      = Len(res.templated_str)
               /\ (IF n = 0 THEN 0 ELSE f[1].source_slice.start) = 0
               /\ (IF n = 0 THEN 0 ELSE f[n].source_slice.stop)
                      = Len(inp.raw_str)

(***************************************************************************)
(* Properties of IntermediateFileSlice.trim_ends.                          *)
(***************************************************************************)
TrimDone == pc = "trim_done"

\* The templated file slice is what trimming the raw slice gives: a literal
\* that is the text of the templated string at its templated slice, or a
\* block start, block end or comment of no width in the templated string.
TrimmedFrom(tfs, rfs, templated_str) ==
    /\ tfs.slice_type = rfs.slice_type
    /\ tfs.source_slice.stop - tfs.source_slice.start = Len(rfs.raw)
    /\ \/ /\ rfs.slice_type = "literal"
          /\ tfs.templated_slice.stop - tfs.templated_slice.start = Len(rfs.raw)
          /\ tfs.templated_slice.start >= 0
          /\ StrSlice(templated_str, tfs.templated_slice.start,
                      tfs.templated_slice.stop) = rfs.raw
       \/ /\ rfs.slice_type \in {"block_start", "block_end", "comment"}
          /\ tfs.templated_slice.stop = tfs.templated_slice.start

\* The raw slice cannot be trimmed at the position given: it is a templated
\* slice, or a literal that is not the text there.
Untrimmable(rfs, templated_str, start, stop) ==
    \/ rfs.slice_type = "templated"
    \/ /\ rfs.slice_type = "literal"
       /\ StrSlice(templated_str, start, stop) # rfs.raw

\* The slices are one after the other in the source and in the templated
\* string and run from the start to the stop of the ranges given.
Covers(slices, source_slice, templated_slice) ==
    /\ slices[1].source_slice.start = source_slice.start
    /\ slices[1].templated_slice.start = templated_slice.start
    /\ Last(slices).source_slice.stop = source_slice.stop
    /\ Last(slices).templated_slice.stop = templated_slice.stop
    /\ \A k \in 2..Len(slices) :
           /\ slices[k].source_slice.start = slices[k - 1].source_slice.stop
           /\ slices[k].templated_slice.start
                  = slices[k - 1].templated_slice.stop

\* C20: trim_ends takes from the head and the tail of the slice buffer only
\* literals that are the text of the templated string at that end of the
\* templated slice and block starts, block ends and comments, which get no
\* width in the templated string; it stops at the first literal that does
\* not match or templated slice, at the head after a block start and at the
\* tail after a block end; the head slices, the slice that remains and the
\* tail slices cover the source and templated ranges of the slice one after
\* the other.
C20_TrimEndsTakesMatchingEnds ==
    TrimDone
        => LET buf == inp.self.slice_buffer
               n == Len(buf)
               H == res.head_buffer
               T == res.tail_buffer
               h == Len(H)
               t == Len(T)
               rest == res.new_slice
               head_at == IF h = 0 THEN inp.self.templated_slice.start
                          ELSE H[h].templated_slice.stop
               tail_at == IF t = 0 THEN inp.self.templated_slice.stop
                          ELSE T[1].templated_slice.start
           IN  /\ h + t <= n
               /\ rest.slice_buffer = SubSeq(buf, h + 1, n - t)
               /\ \A k \in 1..h : TrimmedFrom(H[k], buf[k], inp.templated_str)
               /\ \A k \in 1..t :
                      TrimmedFrom(T[k], buf[n - t + k], inp.templated_str)
               /\ \A k \in 1..(h - 1) : H[k].slice_type # "block_start"
               /\ \A k \in 2..t : T[k].slice_type # "block_end"
               /\ \/ h = n
                  \/ h > 0 /\ H[h].slice_type = "block_start"
                  \/ Untrimmable(buf[h + 1], inp.templated_str, head_at,
                                 head_at + Len(buf[h + 1].raw))
               /\ \/ h + t = n
                  \/ t > 0 /\ T[1].slice_type = "block_end"
                  \/ Untrimmable(buf[n - t], inp.templated_str,
                                 tail_at - Len(buf[n - t].raw), tail_at)
               /\ Covers(H \o <<rest>> \o T, inp.self.source_slice,
                         inp.self.templated_slice)

\* A literal is trimmed from the head and a block end from the tail, and a
\* templated slice remains between them.
C20_Witness ==
    /\ TrimDone
    /\ Len(res.head_buffer) = 1
    /\ res.head_buffer[1].slice_type = "literal"
    /\ Len(res.tail_buffer) = 1
    /\ res.tail_buffer[1].slice_type = "block_end"
    /\ Len(res.new_slice.slice_buffer) = 1
    /\ res.new_slice.slice_buffer[1].slice_type = "templated"
    /\ res.new_slice.templated_slice.start < res.new_slice.templated_slice.stop

\* The raw string is one literal and the templated string is that literal
\* with a character of other text before it and one after it.
WrappedQuery ==
    /\ inp.raw_str # <<>>
    /\ \A i \in 1..Len(inp.raw_str) : inp.raw_str[i] \notin {"{", "}"}
    /\ Len(inp.templated_str) = Len(inp.raw_str) + 2
    /\ SubSeq(inp.templated_str, 2, Len(inp.templated_str) - 1) = inp.raw_str
    /\ Cardinality(Occurrences(inp.raw_str, inp.templated_str)) = 1

\* C21: for a templated string that wraps the source in other text,
\* slice_file with unwrap_wrapped returns the templated string trimmed to
\* what its slices cover, and slices that tile the trimmed string; without
\* unwrap_wrapped it returns the templated string as it is, with a templated
\* slice of no source width at source 0 before the slices and one at the end
\* of the source after them; and it makes two passes at most.
C21_WrappedQueryIsUnwrappedOrMarked ==
    (pc = "sf_done" /\ res.raised = "")
        => LET f == res.sliced_file
               n == Len(f)
           IN  /\ res.passes <= 2
               /\ (WrappedQuery /\ inp.unwrap_wrapped)
                      => /\ res.templated_str = inp.raw_str
                         /\ n > 0
                         /\ f[1].templated_slice.start = 0
                         /\ f[n].templated_slice.stop = Len(res.templated_str)
               /\ (WrappedQuery /\ ~inp.unwrap_wrapped)
                      => /\ res.templated_str = inp.templated_str
                         /\ n >= 2
                         /\ f[1] = TemplatedFileSlice("templated", Slice(0, 0),
                                                      Slice(0, 1))
                         /\ f[n] = TemplatedFileSlice(
                                       "templated",
                                       Slice(Len(inp.raw_str), Len(inp.raw_str)),
                                       Slice(Len(inp.templated_str) - 1,
                                             Len(inp.templated_str)))

(***************************************************************************)
(* Properties of PlaceholderTemplater.process.                             *)
(***************************************************************************)
\* in_str from the index p on with every placeholder of the matches given
\* replaced by its value in the context.
RECURSIVE Substituted(_, _, _, _)
Substituted(in_str, found, context, p) ==
    IF found = <<>> THEN SubSeq(in_str, p + 1, Len(in_str))
    ELSE SubSeq(in_str, p + 1, found[1].span[1])
             \o Replacement(found[1].param_name, context)
             \o Substituted(in_str, Tail(found), context, found[1].span[2])

\* C22: process returns a templated file whose source_str is the input,
\* whose templated_str is the input with every placeholder replaced by its
\* value in the context, and whose slices are literal and templated slices
\* that tile both strings, a templated slice for every placeholder that maps
\* the span of the placeholder in the source to the span of its replacement
\* in the templated string.
C22_PlaceholdersReplacedAndSliced ==
    pc = "ph_done"
        => LET file == res.file
               f == file.sliced_file
               found == FindIter(inp.in_str, 0)
           IN  /\ file.source_str = inp.in_str
               /\ file.templated_str
                      = Substituted(inp.in_str, found, inp.context, 0)
               /\ \A k \in 1..Len(f) :
                      /\ DOMAIN f[k]
                             = {"slice_type", "source_slice", "templated_slice"}
                      /\ f[k].slice_type \in {"literal", "templated"}
               /\ inp.in_str # <<>>
                      => Covers(f, Slice(0, Len(file.source_str)),
                                Slice(0, Len(file.templated_str)))
               /\ \A m \in 1..Len(found) :
                      \E k \in 1..Len(f) :
                          /\ f[k].slice_type = "templated"
                          /\ f[k].source_slice
                                 = Slice(found[m].span[1], found[m].span[2])
                          /\ f[k].templated_slice.stop
                                 - f[k].templated_slice.start
                                 = Len(Replacement(found[m].param_name,
                                                   inp.context))
                          /\ StrSlice(file.templated_str,
                                      f[k].templated_slice.start,
                                      f[k].templated_slice.stop)
                                 = Replacement(found[m].param_name, inp.context)

(***************************************************************************)
(* Properties of patch generation.                                         *)
(***************************************************************************)
IterDone == pc = "iter_done"

GenDone == pc = "gen_done"

\* The text of the templated string at the templated slice of the segment.
TemplatedRaw(segment) ==
    StrSlice(inp.templated_file.templated_str,
             segment.pos_marker.templated_slice.start,
             segment.pos_marker.templated_slice.stop)

\* The patch is the one of the source fix.
PatchOfFix(patch, source_fix) ==
    /\ patch.source_slice = source_fix.source_slice
    /\ patch.templated_slice = source_fix.templated_slice
    /\ patch.fixed_raw = source_fix.edit

\* The patch replaces the segment by its raw.
ReplacementOf(patch, segment) ==
    /\ patch.source_slice = segment.pos_marker.source_slice
    /\ patch.templated_slice = segment.pos_marker.templated_slice
    /\ patch.fixed_raw = segment.raw

\* C23: for a segment whose raw is the text of the templated string at its
\* templated slice, the patches generated are one patch of category "source"
\* for each of its source fixes, with the source slice, the templated slice
\* and the edit of the fix, and no other patch; its children are not
\* compared.
C23_UnchangedSegmentGivesItsSourceFixes ==
    (IterDone /\ inp.tree.raw = TemplatedRaw(inp.tree))
        => /\ Len(res.generated) = Len(inp.tree.source_fixes)
           /\ \A k \in 1..Len(res.generated) :
                  /\ res.generated[k].patch_category = "source"
                  /\ \E j \in 1..Len(inp.tree.source_fixes) :
                         PatchOfFix(res.generated[k], inp.tree.source_fixes[j])

\* C24: for a segment whose raw is not the text of the templated string at
\* its templated slice and whose position marker is literal, one patch is
\* generated that replaces the source slice and templated slice of the
\* segment by its raw; for such a segment that is not literal and has
\* children, the children are gone through instead, so that a changed
\* literal child of some width gets its replacement patch.
C24_ChangedLiteralSegmentIsReplaced ==
    (IterDone /\ inp.tree.raw # TemplatedRaw(inp.tree))
        => IF IsLiteral(inp.tree.pos_marker, inp.templated_file)
           THEN Cardinality({k \in 1..Len(res.generated) :
                                 ReplacementOf(res.generated[k], inp.tree)}) = 1
           ELSE \A c \in 1..Len(inp.tree.segments) :
                    LET child == inp.tree.segments[c]
                    IN  (/\ ~IsPoint(child.pos_marker)
                         /\ child.raw # TemplatedRaw(child)
                         /\ IsLiteral(child.pos_marker, inp.templated_file))
                            => \E k \in 1..Len(res.generated) :
                                   ReplacementOf(res.generated[k], child)

\* The patch comes from a source fix of the tree.
IsSourceFixPatch(patch) ==
    \E j \in 1..Len(inp.tree.source_fixes) :
        PatchOfFix(patch, inp.tree.source_fixes[j])

\* The source slice of the patch overlaps no raw slice or literal ones only.
OnLiteralsOnly(patch) ==
    LET spanned == RawSlicesSpanning(inp.templated_file.raw_sliced,
                                     patch.source_slice)
    IN  \A k \in 1..Len(spanned) : spanned[k].slice_type = "literal"

\* The patch inserts at the start of a raw slice.
OnSliceBoundary(patch) ==
    /\ patch.source_slice.start = patch.source_slice.stop
    /\ \E k \in 1..Len(inp.templated_file.raw_sliced) :
           inp.templated_file.raw_sliced[k].source_idx
               = patch.source_slice.start

\* C25: generate_source_patches keeps a generated patch if and only if no
\* patch kept before it has its source slice and fixed raw and its source
\* slice overlaps no raw slice or only literal ones, or it is an explicit
\* source fix, or it inserts nothing-wide text on the boundary of a raw
\* slice; the others are dropped and nothing is raised.
C25_PatchKeptIffPlaceable ==
    GenDone
        => /\ raising = ""
           /\ \A k \in 1..Len(res.generated) :
                  LET patch == res.generated[k]
                      duplicate ==
                          \E j \in 1..(k - 1) :
                              /\ res.log[j] \in {"literal", "source", "boundary"}
                              /\ DedupeTuple(res.generated[j])
                                     = DedupeTuple(patch)
                  IN  (res.log[k] \in {"literal", "source", "boundary"})
                          <=> /\ ~duplicate
                              /\ \/ OnLiteralsOnly(patch)
                                 \/ IsSourceFixPatch(patch)
                                 \/ OnSliceBoundary(patch)

\* The place of the patch among the patches kept, in the order of their
\* generation.
KeptAt(patch) == CHOOSE k \in 1..Len(res.filtered) : res.filtered[k] = patch

\* C26: the patches that generate_source_patches returns are the patches
\* kept, no two of them have the same source slice and fixed raw, they are
\* in ascending order of the start of their source slices, and those of one
\* start are in the order of their generation.
C26_PatchesDedupedAndSorted ==
    GenDone
        => LET ps == res.patches
           IN  /\ Len(ps) = Len(res.filtered)
               /\ \A k \in 1..Len(ps) :
                      \E j \in 1..Len(res.filtered) : res.filtered[j] = ps[k]
               /\ \A i, j \in 1..Len(ps) :
                      i < j
                          => /\ DedupeTuple(ps[i]) # DedupeTuple(ps[j])
                             /\ ps[i].source_slice.start
                                    <= ps[j].source_slice.start
                             /\ ps[i].source_slice.start
                                    = ps[j].source_slice.start
                                    => KeptAt(ps[i]) < KeptAt(ps[j])

\* A patch was dropped as a duplicate of one kept, and the patches kept were
\* not generated in the order of their starts.
C26_Witness ==
    /\ GenDone
    /\ \E k \in 1..Len(res.log) : res.log[k] = "duplicate"
    /\ Len(res.patches) >= 2
    /\ res.patches # res.filtered

\* The discontinuity and end_marker patches due for the children of a
\* segment, as their category, the start of their source slice and their
\* fixed raw: source_at is the source stop of the child before, templated_at
\* its templated stop and buff the raw of the children of no width since.
RECURSIVE BridgesDue(_, _, _, _, _)
BridgesDue(segment, segments, source_at, templated_at, buff) ==
    IF segments = <<>>
    THEN IF segment.pos_marker.templated_slice.stop # templated_at
            \/ buff # <<>>
         THEN <<[patch_category |-> "end_marker", start |-> source_at,
                 fixed_raw |-> buff]>>
         ELSE <<>>
    ELSE LET seg == segments[1] IN
         IF seg.raw # <<>> /\ IsPoint(seg.pos_marker)
         THEN BridgesDue(segment, Tail(segments), source_at, templated_at,
                         buff \o seg.raw)
         ELSE (IF seg.pos_marker.templated_slice.start > templated_at
                  \/ buff # <<>>
               THEN <<[patch_category |-> "discontinuity", start |-> source_at,
                       fixed_raw |-> buff]>>
               ELSE <<>>)
                  \o BridgesDue(segment, Tail(segments),
                                seg.pos_marker.source_slice.stop,
                                seg.pos_marker.templated_slice.stop, <<>>)

\* The discontinuity and end_marker patches among the patches, likewise.
RECURSIVE BridgesIn(_)
BridgesIn(patches) ==
    IF patches = <<>> THEN <<>>
    ELSE (IF patches[1].patch_category \in {"discontinuity", "end_marker"}
          THEN <<[patch_category |-> patches[1].patch_category,
                  start |-> patches[1].source_slice.start,
                  fixed_raw |-> patches[1].fixed_raw]>>
          ELSE <<>>) \o BridgesIn(Tail(patches))

\* C30: for a changed segment that is not literal and has children, a
\* discontinuity patch is generated before a child exactly when the
\* templated string has a gap since the child before or children of no
\* width were buffered, and an end_marker patch after the last child exactly
\* when some of the templated slice or of the buffer remains; the source
\* slice of each starts at the source stop of the child before (the source
\* start of the segment when there is none), its fixed raw is the raw of the
\* buffered children in their order, and the patches come in the order of
\* the children.
C30_BridgesBetweenChildren ==
    (/\ IterDone
     /\ inp.tree.raw # TemplatedRaw(inp.tree)
     /\ ~IsLiteral(inp.tree.pos_marker, inp.templated_file)
     /\ inp.tree.segments # <<>>)
        => BridgesIn(res.generated)
               = BridgesDue(inp.tree, StripTrailing(inp.tree.segments),
                            inp.tree.pos_marker.source_slice.start,
                            inp.tree.pos_marker.templated_slice.start, <<>>)

(***************************************************************************)
(* Properties of the parse cache.                                          *)
(***************************************************************************)
\* C27: for every context and key pair, check_parse_cache returns what was
\* last put for that pair in that context, and None when nothing was; a
\* check adds no entry, so the keys of a cache are the pairs put into it,
\* and a put changes nothing for another pair or another context; no call
\* raises.
C27_ParseCacheIsAMap ==
    pc = "cache"
        => /\ raising = ""
           /\ \A c \in CacheContexts :
                  /\ DOMAIN res.parse_cache[c]
                         = {k \in LocKeys \X MatcherKeys :
                                res.stored[c][k] # NoneValue}
                  /\ \A k \in LocKeys \X MatcherKeys :
                         CheckParseCache(res.parse_cache[c], k[1], k[2]).value
                             = res.stored[c][k]
           /\ inp.op = "check"
                  => res.returned
                         = res.stored[inp.context][<<inp.loc_key,
                                                     inp.matcher_key>>]

\* A check of a pair nothing was put for returns None in a context, after a
\* put for the same pair in the other context and a put over an earlier one
\* in this context.
C27_Witness ==
    /\ pc = "cache"
    /\ inp.op = "check"
    /\ res.returned = NoneValue
    /\ inp.context = 1
    /\ res.stored[2][<<inp.loc_key, inp.matcher_key>>] # NoneValue
    /\ res.puts = 3
    /\ Cardinality(DOMAIN res.parse_cache[1]) = 1

(***************************************************************************)
(* Properties of the metas of Sequence.match.                              *)
(***************************************************************************)
\* The indices of the placeholders of segments in [pre, post).
PlaceholdersIn(segments, pre, post) ==
    {i \in pre..(post - 1) : i < Len(segments) /\ IsPlaceholder(segments[i + 1])}

\* The index for the metas buffered before an element, over the non-code
\* span [pre_nc_idx, post_nc_idx) before it.
PlacedIdx(pre_nc_idx, post_nc_idx, metas, segments) ==
    LET span == PlaceholdersIn(segments, pre_nc_idx, post_nc_idx)
    IN  IF \A k \in 1..Len(metas) : metas[k] >= 0
        THEN IF span # {} /\ BlockType(segments[SetMax(span) + 1]) = "block_end"
             THEN SetMax(span) + 1
             ELSE pre_nc_idx
        ELSE IF span # {} /\ BlockType(segments[SetMin(span) + 1]) = "block_start"
             THEN SetMin(span)
             ELSE post_nc_idx

\* The insertions of the metas buffered before the matched elements, in the
\* order of the elements.
RECURSIVE PlacedInserts(_, _)
PlacedInserts(flushes, segments) ==
    IF flushes = <<>> THEN <<>>
    ELSE LET f == Head(flushes)
         IN  [k \in 1..Len(f.metas) |->
                 <<PlacedIdx(f.prev_stop, f.start, f.metas, segments), f.metas[k]>>]
             \o PlacedInserts(Tail(flushes), segments)

\* The elements of a grammar that consume input.
Consuming(g) == {k \in 1..Len(g.elements) : g.elements[k].kind \in {"leaf", "seq"}}

\* The call returned a match that keeps the insertions made so far.
KeepsInserts ==
    /\ SeqReturned
    /\ res.gh.path \in {"end", "end_leftover", "partial", "wrapped_nothing_left"}

\* C28: the metas of a Sequence never consume input: only the other elements
\* are handed to a matcher, and the metas buffered before a matched element are
\* all inserted at one index of the non-code span between the stop of the
\* element matched before it (the start index for the first) and its own
\* start: with no negative indent_val, just after the last placeholder of the
\* span when that is a block_end and at the start of the span otherwise; with
\* a negative indent_val, at the first placeholder of the span when that is a
\* block_start and at the end of the span otherwise.
C28_MetasPlacedOverNonCodeSpan ==
    /\ SeqDone => Len(res.gh.attempts) <= Cardinality(Consuming(inp.grammar))
    /\ KeepsInserts =>
           LET placed == PlacedInserts(res.gh.flushes, inp.segments)
           IN  /\ Len(res.m.ins) >= Len(placed)
               /\ SubSeq(res.m.ins, 1, Len(placed)) = placed

\* Every element of the grammar that consumes input matched and no token is
\* left over.
AllMatched ==
    /\ SeqReturned
    /\ res.gh.path = "end"
    /\ res.gh.nmatched = Cardinality(Consuming(inp.grammar))

\* C29: a non-empty match returned by Sequence.match starts at the start
\* index and stops no later than the end of the input; when every element
\* matched and nothing is left over it stops where the last matched element
\* stops, every element having started at or after the stop of the one before
\* it, the metas still buffered are inserted at that stop, and the insertion
\* indices never decrease.
C29_MatchedSliceAndTrailingMetas ==
    /\ (SeqReturned /\ Truthy(res.m))
           => /\ res.m.start = inp.idx
              /\ res.m.stop <= Len(inp.segments)
    /\ AllMatched
           => LET ins == res.m.ins
                  n == Len(res.gh.meta_buffer)
              IN  /\ res.m.stop = res.gh.last_stop
                  /\ \A k \in 1..Len(res.gh.flushes) :
                         res.gh.flushes[k].start >= res.gh.flushes[k].prev_stop
                  /\ Len(ins) >= n
                  /\ \A k \in (Len(ins) - n + 1)..Len(ins) :
                         ins[k] = <<res.gh.last_stop,
                                    res.gh.meta_buffer[k - (Len(ins) - n)]>>
                  /\ \A j, k \in 1..Len(ins) : j <= k => ins[j][1] <= ins[k][1]

====
